---------------------------- MODULE Spec2Model ----------------------------
(***************************************************************************)
(* EchoInTrack (src/v10/app.py): the echo_requests table, the request       *)
(* handlers that change it, the request-id allocator and the working-hours  *)
(* deadline calculator.                                                     *)
(*                                                                          *)
(* Time.  A timestamp is a number of minutes of Europe/London wall-clock    *)
(* time since a Monday 00:00 (day 0).  Days are numbered from that Monday,  *)
(* so date.weekday() of day d is d % 7 (Monday = 0 ... Sunday = 6).  The    *)
(* London UTC offset is constant over the modelled weeks (ukOffset: 0 in    *)
(* winter, 60 in summer).  A datetime or ISO string is a record            *)
(* [wall, off]: the wall-clock minutes it spells and the UTC offset it      *)
(* carries; a naive one is [wall, naive].                                   *)
(*                                                                          *)
(* Request ids.  A request_id "YY.NNNN" is a record [yy, digits]: the year  *)
(* prefix and the sequence of decimal digits after the dot, so the TEXT     *)
(* ordering of SQLite and int() of Python are both computed as the code     *)
(* computes them.                                                           *)
(***************************************************************************)
EXTENDS Integers, Sequences, FiniteSets, TLC

VARIABLES
    rows,       \* echo_requests: id -> row, for the ids stored
    next_id,    \* the next AUTOINCREMENT id
    now,        \* get_uk_time(): the London wall clock
    holidays,   \* UK_BANK_HOLIDAYS: the configured holiday days
    ukOffset,   \* the UTC offset of Europe/London in the modelled weeks
    pc,         \* per handler thread of add_request: "idle" or "insert"
    data,       \* per handler thread: the JSON body of its add_request
    rid,        \* per handler thread: the request_id it read
    resp,       \* the last HTTP response sent
    issued,     \* history: id -> request_id of every row ever inserted
    updates,    \* number of field edits made so far
    calc,       \* the last call of add_working_hours_uk: inputs and result
    hostOffset, \* the UTC offset of the host's local zone: datetime.now()
    stat,       \* the last answer of a query (statistics, listing), or the
                \* count the maintenance script printed
    script,     \* the script running beside the server, between its SELECT
                \* and its writes: what it has read
    query       \* the statistics handler between its SELECTs: what it has
                \* read so far

vars == <<rows, next_id, now, holidays, ukOffset, pc, data, rid, resp,
          issued, updates, calc, hostOffset, stat, script, query>>

-----------------------------------------------------------------------------
(* Bounds of the model *)

\* clock steps in one run
MaxTicks == 1
\* field edits (notes, name, mrn, ward) in one run
MaxUpdates == 1
\* weeks of start times given to the deadline calculator
CalcWeeks == 2

-----------------------------------------------------------------------------
(* Calendar *)

HourMin == 60
DayHours == 24
WeekDays == 7
DayMin == DayHours * HourMin

\* the minute of weekday wd (Monday = 0) of week w at hh:mm
At(w, wd, hh, mm) == ((w * WeekDays + wd) * DayHours + hh) * HourMin + mm

\* datetime.date(): the day a wall-clock minute falls on
DateOf(t) == t \div DayMin

\* date.weekday()
Weekday(d) == d % WeekDays

Saturday == 5
Sunday == 6

\* the weekend test on date.isoweekday() (Monday = 1): Friday and Saturday
IsoWeekdayWeekend(d, hol) ==
    (Weekday(d) + 1 = Saturday \/ Weekday(d) + 1 = Sunday) \/ (d \in hol)

\* the weekend test with the week numbered from Sunday = 0: Monday and Sunday
SundayFirstWeekend(d, hol) ==
    (Weekday(d) = 0 \/ Weekday(d) = Sunday) \/ (d \in hol)

is_weekend_or_bank_holiday(d, hol) ==
    (Weekday(d) = Saturday \/ Weekday(d) = Sunday) \/ (d \in hol)

-----------------------------------------------------------------------------
(* Working-hours deadline calculator *)

\* iterations of the loop of add_working_hours_uk the model runs at most;
\* no deadline of the model needs as many
LoopFuel == 336

\* the iteration that tests the day of the hour left, not of the hour
\* reached
LoopBodyTestsHourLeft(st, hol) ==
    IF st.remaining_hours > 0
    THEN [current_date |-> st.current_date + HourMin,
          remaining_hours |->
              IF ~is_weekend_or_bank_holiday(DateOf(st.current_date), hol)
              THEN st.remaining_hours - 1
              ELSE st.remaining_hours]
    ELSE st

\* one iteration of the while loop of add_working_hours_uk: an hour is
\* added, and counted when the hour reached falls on a working day; past
\* the loop's exit nothing changes
LoopBody(st, hol) ==
    IF st.remaining_hours > 0
    THEN LET stepped == st.current_date + HourMin
         IN  [current_date |-> stepped,
              remaining_hours |->
                  IF ~is_weekend_or_bank_holiday(DateOf(stepped), hol)
                  THEN st.remaining_hours - 1
                  ELSE st.remaining_hours]
    ELSE st

RECURSIVE Iterate(_, _, _)
\* LoopBody n times over, the run split in halves
Iterate(st, n, hol) ==
    IF st.remaining_hours <= 0 \/ n = 0 THEN st
    ELSE IF n = 1 THEN LoopBody(st, hol)
    ELSE Iterate(Iterate(st, n \div 2, hol), n - n \div 2, hol)

\* the loop left one iteration late (while remaining_hours >= 0)
AddHoursLate(start_date, hours, hol) ==
    LET last == Iterate([current_date |-> start_date,
                         remaining_hours |-> hours + 1], LoopFuel, hol)
    IN  last.current_date

\* the loop entered before its test (do ... while remaining_hours > 0)
AddHoursDoWhile(start_date, hours, hol) ==
    LET first == start_date + HourMin
        left == IF ~is_weekend_or_bank_holiday(DateOf(first), hol)
                THEN hours - 1 ELSE hours
    IN  Iterate([current_date |-> first, remaining_hours |-> left],
                LoopFuel, hol).current_date

\* add_working_hours_uk on the wall-clock minutes of a London datetime
\* (localizing a naive start leaves them as they are)
add_working_hours_uk(start_date, hours, hol) ==
    LET last == Iterate([current_date |-> start_date,
                         remaining_hours |-> hours], LoopFuel, hol)
    IN  last.current_date

-----------------------------------------------------------------------------
(* Request ids: "YY.NNNN" *)

current_year == 26
ZfillWidth == 4
Base == 10

RECURSIVE Digits(_)
\* str(n) for n >= 0: the decimal digits, most significant first
Digits(n) == IF n < Base THEN <<n>> ELSE Append(Digits(n \div Base), n % Base)

RECURSIVE Zfill(_, _)
\* str.zfill(width): zeros on the left up to the width, never a cut
Zfill(s, width) == IF Len(s) >= width THEN s ELSE Zfill(<<0>> \o s, width)

RECURSIVE ParseInt(_)
\* int(parts[1]) on a string of digits
ParseInt(s) ==
    IF Len(s) = 0 THEN 0
    ELSE ParseInt(SubSeq(s, 1, Len(s) - 1)) * Base + s[Len(s)]

\* f"{current_year}.{str(seq).zfill(4)}"
FormatId(yy, seq) == [yy |-> yy, digits |-> Zfill(Digits(seq), ZfillWidth)]

RECURSIVE TextLess(_, _)
\* a < b in SQLite's BINARY collation, on the text after the common "YY."
TextLess(a, b) ==
    IF Len(b) = 0 THEN FALSE
    ELSE IF Len(a) = 0 THEN TRUE
    ELSE IF a[1] # b[1] THEN a[1] < b[1]
    ELSE TextLess(Tail(a), Tail(b))

\* request_id LIKE 'YY.%'
LikeYear(request_id, yy) == request_id.yy = yy

\* ORDER BY request_id DESC LIMIT 1 over the ids of the year; {} when no row
LastRequestId(store, yy) ==
    LET ids == {store[i].request_id : i \in DOMAIN store}
        mine == {r \in ids : LikeYear(r, yy)}
    IN  {r \in mine : \A o \in mine : ~TextLess(r.digits, o.digits)}

get_next_request_id(store, yy) ==
    LET row == LastRequestId(store, yy)
    IN  IF row = {} THEN FormatId(yy, 1)
        ELSE LET last_request_id == CHOOSE r \in row : TRUE
                 last_seq == ParseInt(last_request_id.digits)
                 new_seq == last_seq + 1
             IN  FormatId(yy, new_seq)

-----------------------------------------------------------------------------
(* Time conversion *)

\* SQL NULL, Python None
NULL == [null |-> TRUE]

\* A datetime that carries a UTC offset (in minutes) and one that does not
Aware(wall, off) == [wall |-> wall, off |-> off]
NaiveDt(wall) == [wall |-> wall, naive |-> TRUE]
IsNaive(dt) == "naive" \in DOMAIN dt

\* pytz.UTC
UtcOff == 0

\* convert_to_uk_time: a naive datetime is localized as UTC; the instant is
\* then expressed in London time
convert_to_uk_time(dt, ukoff) ==
    IF dt = NULL THEN NULL
    ELSE LET aware == IF IsNaive(dt) THEN Aware(dt.wall, UtcOff) ELSE dt
         IN  Aware(aware.wall - aware.off + ukoff, ukoff)

\* An ISO string given by a client: [ok, dt]; ok is whether
\* datetime.fromisoformat accepts it, empty is the empty string
GoodIso(dt) == [ok |-> TRUE, empty |-> FALSE, dt |-> dt]
BadIso == [ok |-> FALSE, empty |-> FALSE, dt |-> NULL]
EmptyIso == [ok |-> FALSE, empty |-> TRUE, dt |-> NULL]

iso_to_uk_time(iso_str, ukoff) ==
    IF iso_str.empty THEN NULL
    ELSE IF iso_str.ok THEN convert_to_uk_time(iso_str.dt, ukoff)
    ELSE NULL

\* uk_time_to_iso: the datetime as an ISO string with the London offset
uk_time_to_iso(dt, ukoff) ==
    IF dt = NULL THEN NULL
    ELSE IF ~IsNaive(dt) THEN convert_to_uk_time(dt, ukoff)
    ELSE Aware(dt.wall, ukoff)

\* get_uk_time() when the London wall clock shows minute t
get_uk_time(t, ukoff) == Aware(t, ukoff)

-----------------------------------------------------------------------------
(* The echo_requests table *)

PURPLE == "PURPLE PATHWAY"
RED == "RED PATHWAY"
AMBER == "AMBER PATHWAY"
GREEN == "GREEN PATHWAY"
REJECTED == "REJECTED"

\* the pathway check letting one more name through
PathwaysWithBlue == {PURPLE, RED, AMBER, GREEN, REJECTED, "BLUE PATHWAY"}

valid_pathways == {PURPLE, RED, AMBER, GREEN, REJECTED}

PurpleHours == 1
RedHours == 24
AmberHours == 72

\* the INSERT of add_request: status and completion_time take the column
\* defaults 'pending' and NULL
NewRow(id, request_id, pathway, request_time, expected_time, triage_date) ==
    [id |-> id, request_id |-> request_id, pathway |-> pathway,
     request_time |-> request_time, expected_time |-> expected_time,
     status |-> "pending", triage_date |-> triage_date,
     completion_time |-> NULL,
     notes |-> "", name |-> "", mrn |-> "", ward |-> ""]

\* expected_time with only GREEN left untimed
ExpectedTimeGreenOnly(pathway, request_time, hol) ==
    IF pathway = GREEN THEN request_time
    ELSE Aware(add_working_hours_uk(request_time.wall,
                                    IF pathway = PURPLE THEN PurpleHours
                                    ELSE IF pathway = RED THEN RedHours
                                    ELSE AmberHours, hol),
               request_time.off)

\* expected_time cut down to the start of the deadline's day
ExpectedTimeDateOnly(pathway, request_time, hol) ==
    IF pathway \in {PURPLE, RED, AMBER}
    THEN LET hours == IF pathway = PURPLE THEN PurpleHours
                      ELSE IF pathway = RED THEN RedHours ELSE AmberHours
             due == add_working_hours_uk(request_time.wall, hours, hol)
         IN  Aware(DateOf(due) * DayMin, request_time.off)
    ELSE request_time

\* expected_time of add_request: the request time, moved by the working
\* hours of the timed pathways
ExpectedTime(pathway, request_time, hol) ==
    IF pathway = PURPLE
    THEN Aware(add_working_hours_uk(request_time.wall, PurpleHours, hol), request_time.off)
    ELSE IF pathway = RED
    THEN Aware(add_working_hours_uk(request_time.wall, RedHours, hol), request_time.off)
    ELSE IF pathway = AMBER
    THEN Aware(add_working_hours_uk(request_time.wall, AmberHours, hol), request_time.off)
    ELSE request_time

\* the update that leaves a completed row with its first completion_time
MarkRowKeepingFirst(row, completion_time) ==
    IF row.status = "completed" THEN row
    ELSE [row EXCEPT !.status = "completed", !.completion_time = completion_time]

\* UPDATE ... SET status = 'completed', completion_time = ? of mark_completed
MarkRow(row, completion_time) ==
    [row EXCEPT !.status = "completed", !.completion_time = completion_time]

\* the undo that leaves completion_time as it was
UndoRowKeepTime(row) == [row EXCEPT !.status = "pending"]

\* UPDATE ... SET status = 'pending', completion_time = NULL of undo_completed
UndoRow(row) ==
    [row EXCEPT !.status = "pending", !.completion_time = NULL]

\* UPDATE ... WHERE id = ?: the row with that id takes its changed value,
\* and no row changes when the id is absent; changed maps each stored id to
\* what the SET clause makes of its row
UpdateWhereId(store, id, changed) ==
    [i \in DOMAIN store |-> IF i = id THEN changed[i] ELSE store[i]]

\* DELETE FROM echo_requests WHERE id = ?
DeleteWhereId(store, id) ==
    [i \in DOMAIN store \ {id} |-> store[i]]

\* INSERT INTO echo_requests
InsertRow(store, row) ==
    [i \in DOMAIN store \cup {row.id} |-> IF i = row.id THEN row ELSE store[i]]

-----------------------------------------------------------------------------
(* Inputs and initial states *)

\* the highest AUTOINCREMENT id one run allocates
MaxId == 2

\* the highest id allocated when add_request calls do not overlap
MaxSeqId == 3

\* handler threads of the server that may run add_request at the same time
Threads == {"t1", "t2"}

\* AUTOINCREMENT ids start at 1: 0 stands for no id
NoId == 0
Ok == 200
BadRequest == 400
NotFound == 404
GmtOff == 0
BstOff == 60
\* the step of the clock
TickMin == 12 * HourMin
TickHalf == HourMin \div 2

\* the clock of the first state: Friday of week 1, 08:00
Now0 == At(1, 4, 8, 0)

\* the Monday after that Friday
NextMonday == DateOf(At(2, 0, 0, 0))

HolidaySets == {{}, {NextMonday}}

\* request_time strings sent by clients: Friday 23:30 without an offset,
\* and unparsable text
IsoInputs == {GoodIso(NaiveDt(At(1, 4, 23, 30))), BadIso}

PathwayInputs == valid_pathways \cup {"BLUE PATHWAY"}

\* JSON bodies of add_request; has is whether 'pathway' and 'request_time'
\* are both present
NoBody == [has |-> FALSE, pathway |-> "", request_time |-> EmptyIso]
AddBodies ==
    {NoBody} \cup
    {[has |-> TRUE, pathway |-> p, request_time |-> t] :
        p \in PathwayInputs, t \in IsoInputs}

\* JSON bodies of the handlers that take an id; has_id is whether 'id' is
\* present
IdBodies(max_id) ==
    {[has_id |-> FALSE, id |-> NoId]} \cup
    {[has_id |-> TRUE, id |-> i] : i \in 1..max_id}

FieldValues == {"x"}

\* a row of the previous year; day 0 stands for the day, long before the
\* first state, on which it was requested and triaged
OldRow ==
    NewRow(1, FormatId(current_year - 1, 7), GREEN,
           Aware(At(0, 0, 10, 0), GmtOff), Aware(At(0, 0, 10, 0), GmtOff), 0)

EmptyStore == [i \in {} |-> OldRow]

InitStores == {EmptyStore, InsertRow(EmptyStore, OldRow)}

NoResp == [op |-> "none", code |-> Ok, found |-> TRUE]
NoCalc == [start |-> 0, hours |-> 0, result |-> 0, called |-> FALSE]
\* no query answered yet
NoStat == [op |-> "none", count |-> 0, daily |-> <<>>, list |-> <<>>]
\* no script is between its SELECT and its writes.  Of a script that is:
\* args is the command line of add_fake_data.py, mark whether
\* fix_overdue_data.py marks rows completed, at the clock it read, seq the
\* sequence number it will give first, list the rows its SELECT returned
NoArgs == [days_back |-> 0, min |-> 0, max |-> 0]
NoScript ==
    [op |-> "none", args |-> NoArgs, mark |-> FALSE, at |-> 0, seq |-> 0,
     list |-> <<>>]
\* no statistics handler is between its SELECTs.  Of one that is: at is
\* the clock it read, part the results of the SELECTs it has run
NoQuery == [op |-> "none", at |-> 0, part |-> <<>>]

\* a response: the handler, the HTTP status and, for the record, whether the
\* id it was given was stored
Response(op, code, found) == [op |-> op, code |-> code, found |-> found]

InitWith(stores, holsets, offsets) ==
    /\ rows \in stores
    /\ next_id = Cardinality(DOMAIN rows) + 1
    /\ now = Now0
    /\ holidays \in holsets
    /\ ukOffset \in offsets
    /\ pc = [t \in Threads |-> "idle"]
    /\ data = [t \in Threads |-> NoBody]
    /\ rid = [t \in Threads |-> NULL]
    /\ resp = NoResp
    /\ issued = [i \in DOMAIN rows |-> rows[i].request_id]
    /\ updates = 0
    /\ calc = NoCalc
    /\ hostOffset = UtcOff
    /\ stat = NoStat
    /\ script = NoScript
    /\ query = NoQuery

\* the server configured with the holiday Monday, in summer time
Init == InitWith(InitStores, {{NextMonday}}, {BstOff})

-----------------------------------------------------------------------------
(* Handlers *)

InFlight == Cardinality({t \in Threads : pc[t] = "insert"})

\* add_request up to and including get_next_request_id(): the validation of
\* the body and the SELECT of the last request_id
add_request_read(t, body) ==
    /\ pc[t] = "idle"
    /\ IF ~body.has \/ body.pathway \notin valid_pathways
       THEN /\ resp' = Response("add_request", BadRequest, TRUE)
            /\ UNCHANGED <<pc, data, rid>>
       ELSE /\ pc' = [pc EXCEPT ![t] = "insert"]
            /\ data' = [data EXCEPT ![t] = body]
            /\ rid' = [rid EXCEPT ![t] = get_next_request_id(rows, current_year)]
            /\ UNCHANGED resp
    /\ UNCHANGED <<rows, next_id, now, holidays, ukOffset, issued, updates, calc,
                   hostOffset, stat, script, query>>

\* add_request from get_uk_time() on: the parse of request_time, the
\* deadline and the INSERT
add_request_insert(t) ==
    /\ pc[t] = "insert"
    /\ LET current_time == get_uk_time(now, ukOffset)
           triage_date == DateOf(current_time.wall)
           request_time == iso_to_uk_time(data[t].request_time, ukOffset)
       IN  IF request_time = NULL
           THEN /\ resp' = Response("add_request", BadRequest, TRUE)
                /\ UNCHANGED <<rows, next_id, issued>>
           ELSE LET expected_time ==
                        ExpectedTime(data[t].pathway, request_time, holidays)
                    row == NewRow(next_id, rid[t], data[t].pathway,
                                  uk_time_to_iso(request_time, ukOffset),
                                  uk_time_to_iso(expected_time, ukOffset),
                                  triage_date)
                IN  /\ rows' = InsertRow(rows, row)
                    /\ next_id' = next_id + 1
                    /\ issued' = [i \in DOMAIN issued \cup {next_id} |->
                                      IF i = next_id THEN rid[t] ELSE issued[i]]
                    /\ resp' = Response("add_request", Ok, TRUE)
    /\ pc' = [pc EXCEPT ![t] = "idle"]
    /\ data' = [data EXCEPT ![t] = NoBody]
    /\ rid' = [rid EXCEPT ![t] = NULL]
    /\ UNCHANGED <<now, holidays, ukOffset, updates, calc, hostOffset, stat, script, query>>

\* mark_completed
mark_completed(body) ==
    /\ IF ~body.has_id
       THEN /\ resp' = Response("mark_completed", BadRequest, TRUE)
            /\ UNCHANGED rows
       ELSE LET completion_time == uk_time_to_iso(get_uk_time(now, ukOffset), ukOffset)
                marked == [i \in DOMAIN rows |-> MarkRow(rows[i], completion_time)]
            IN  /\ rows' = UpdateWhereId(rows, body.id, marked)
                /\ resp' = Response("mark_completed", Ok, body.id \in DOMAIN rows)
    /\ UNCHANGED <<next_id, now, holidays, ukOffset, pc, data, rid, issued,
                   updates, calc, hostOffset, stat, script, query>>

\* undo_completed
undo_completed(body) ==
    /\ IF ~body.has_id
       THEN /\ resp' = Response("undo_completed", BadRequest, TRUE)
            /\ UNCHANGED rows
       ELSE /\ rows' = UpdateWhereId(rows, body.id,
                                      [i \in DOMAIN rows |-> UndoRow(rows[i])])
            /\ resp' = Response("undo_completed", Ok, body.id \in DOMAIN rows)
    /\ UNCHANGED <<next_id, now, holidays, ukOffset, pc, data, rid, issued,
                   updates, calc, hostOffset, stat, script, query>>

\* delete_request
delete_request(body) ==
    /\ IF ~body.has_id
       THEN /\ resp' = Response("delete_request", BadRequest, TRUE)
            /\ UNCHANGED rows
       ELSE /\ rows' = DeleteWhereId(rows, body.id)
            /\ resp' = Response("delete_request", Ok, body.id \in DOMAIN rows)
    /\ UNCHANGED <<next_id, now, holidays, ukOffset, pc, data, rid, issued,
                   updates, calc, hostOffset, stat, script, query>>

\* update_notes, update_name, update_mrn, update_ward: the same handler but
\* for the column it sets
UpdateField(op, body, changed) ==
    /\ updates < MaxUpdates
    /\ IF ~body.has_id
       THEN /\ resp' = Response(op, BadRequest, TRUE)
            /\ UNCHANGED <<rows, updates>>
       ELSE /\ rows' = UpdateWhereId(rows, body.id, changed)
            /\ resp' = Response(op, Ok, body.id \in DOMAIN rows)
            /\ updates' = IF body.id \in DOMAIN rows THEN updates + 1 ELSE updates
    /\ UNCHANGED <<next_id, now, holidays, ukOffset, pc, data, rid, issued,
                   calc, hostOffset, stat, script, query>>

update_notes(body, new_notes) ==
    UpdateField("update_notes", body,
                [i \in DOMAIN rows |-> [rows[i] EXCEPT !.notes = new_notes]])

update_name(body, new_name) ==
    UpdateField("update_name", body,
                [i \in DOMAIN rows |-> [rows[i] EXCEPT !.name = new_name]])

update_mrn(body, new_mrn) ==
    UpdateField("update_mrn", body,
                [i \in DOMAIN rows |-> [rows[i] EXCEPT !.mrn = new_mrn]])

update_ward(body, new_ward) ==
    UpdateField("update_ward", body,
                [i \in DOMAIN rows |-> [rows[i] EXCEPT !.ward = new_ward]])

\* the script add_fake_data.py, run beside the server, and the upload of a
\* database file

\* values taken of each random.uniform draw, spread evenly over its range
\* from the lower end
FakeDraws == 3
\* rows of the script that the table holds at one time
MaxFakeRows == 2

\* command lines of the script: days_back, requests_per_day_min and
\* requests_per_day_max; one row for today, and none or one for each of
\* yesterday and today
FakeArgs ==
    {[days_back |-> 0, min |-> 1, max |-> 1],
     [days_back |-> 1, min |-> 0, max |-> 1]}

\* hour=8 and hour=18: the working day of the script
FakeDayStartHour == 8
FakeDayEndHour == 18
\* the bounds, in hours, of the draws of a completion time
FakeClampHours == 12
FakeSlightHours == 6
FakeLateHours == 48
\* name, mrn, ward and notes as drawn for one row: the first of
\* SAMPLE_NAMES, of the MRN numbers and of SAMPLE_WARDS with no note, and
\* the last of each with the last of note_options
FakePatients ==
    {[name |-> "John Smith", mrn |-> "MRN100000", ward |-> "A&E",
      notes |-> ""],
     [name |-> "Jennifer Hill", mrn |-> "MRN999999", ward |-> "Talbot Butler",
      notes |-> "Pre-operative assessment"]}

\* random.uniform(a, b), in minutes: a + (b - a) * random.random(), with
\* random.random() in [0, 1)
Uniform(a, b) == {a + ((b - a) * f) \div FakeDraws : f \in 0..(FakeDraws - 1)}

\* expected_time of the script: its own add_working_hours_uk counts the
\* hours that end on Monday to Friday and knows no bank holiday
FakeExpected(pathway, request_time) ==
    IF pathway \in {PURPLE, RED, AMBER}
    THEN Aware(add_working_hours_uk(request_time.wall,
                                    IF pathway = PURPLE THEN PurpleHours
                                    ELSE IF pathway = RED THEN RedHours
                                    ELSE AmberHours, {}),
               request_time.off)
    ELSE request_time

\* completion_time of a completed row: between request and deadline, a
\* little after the deadline or long after it, and between 12 hours ago and
\* now when that would be after now
FakeCompletions(request, expected, t) ==
    LET span == expected - request
        drawn ==
            IF expected > request
            THEN Uniform(request, expected)
                 \cup Uniform(expected, expected + span \div 4)
                 \cup Uniform(expected + span \div 2, expected + 2 * span)
            ELSE Uniform(request + HourMin \div 2, request + 2 * HourMin)
                 \cup Uniform(expected, expected + FakeSlightHours * HourMin)
                 \cup Uniform(expected + FakeSlightHours * HourMin,
                              expected + FakeLateHours * HourMin)
    IN  {c \in drawn : c <= t}
        \cup (IF \E c \in drawn : c > t
              THEN {t - h : h \in Uniform(0, FakeClampHours * HourMin)}
              ELSE {})

\* the rows the script may make for a request time: any pathway, pending or
\* completed, with request_id and id still to be given
FakeRows(wall, t, ukoff) ==
    UNION {
        LET request_time == Aware(wall, ukoff)
            expected_time == FakeExpected(p, request_time)
            pending == [NewRow(NoId, FormatId(current_year, 1), p, request_time,
                               expected_time, DateOf(wall))
                        EXCEPT !.name = patient.name, !.mrn = patient.mrn,
                               !.ward = patient.ward,
                               !.notes = patient.notes]
        IN  {pending} \cup
            {MarkRow(pending, Aware(c, ukoff)) :
                c \in FakeCompletions(wall, expected_time.wall, t)}
        : p \in valid_pathways, patient \in FakePatients}

\* the rows of the day day_offset days ago: requested between 08:00 and
\* 18:00, today between 08:00 and now
FakeDayRows(day_offset, t, ukoff) ==
    LET day_date == DateOf(t - day_offset * DayMin)
        day_start == day_date * DayMin + FakeDayStartHour * HourMin
        day_end == IF day_offset = 0 THEN t
                   ELSE day_date * DayMin + FakeDayEndHour * HourMin
    IN  UNION {FakeRows(wall, t, ukoff) : wall \in Uniform(day_start, day_end)}

\* the rows of one day in the order of their INSERTs: random.randint(min,
\* max) of them, or none on a Saturday or Sunday that is skipped
FakeDaySeqs(day_offset, args, t, ukoff) ==
    LET day_date == DateOf(t - day_offset * DayMin)
        drawn == UNION {[1..m -> FakeDayRows(day_offset, t, ukoff)] :
                           m \in args.min..args.max}
    IN  IF Weekday(day_date) >= Saturday THEN drawn \cup {<<>>} ELSE drawn

\* the rows of the days from day_offset days ago to today
RECURSIVE FakeBatches(_, _, _, _)
FakeBatches(day_offset, args, t, ukoff) ==
    IF day_offset = 0 THEN FakeDaySeqs(0, args, t, ukoff)
    ELSE {a \o b : a \in FakeDaySeqs(day_offset, args, t, ukoff),
                   b \in FakeBatches(day_offset - 1, args, t, ukoff)}

\* the most rows one run of the script inserts
FakeMost(args) == (args.days_back + 1) * args.max

\* the rows a script between its SELECT and its INSERTs may still insert
FakeInFlight ==
    IF script.op = "add_realistic_fake_data" THEN FakeMost(script.args) ELSE 0

\* add_realistic_fake_data up to uk_now = get_uk_time(): the SELECT of the
\* last request_id of the year gives the first sequence number, and the
\* clock is read.  No transaction is open after the SELECT
add_fake_data_select(args) ==
    LET last == LastRequestId(rows, current_year)
        start_seq == IF last = {} THEN 1
                     ELSE ParseInt((CHOOSE r \in last : TRUE).digits) + 1
        fake_stored == {i \in DOMAIN rows :
                           \E p \in FakePatients : rows[i].name = p.name}
    IN  /\ script.op = "none"
        /\ Cardinality(fake_stored) + FakeMost(args) <= MaxFakeRows
        /\ next_id + InFlight + FakeMost(args) - 1 <= MaxId
        /\ script' = [op |-> "add_realistic_fake_data", args |-> args,
                      mark |-> FALSE, at |-> now, seq |-> start_seq,
                      list |-> <<>>]
        /\ UNCHANGED <<rows, next_id, now, holidays, ukOffset, pc, data, rid,
                       resp, issued, updates, calc, hostOffset, stat, query>>

\* add_realistic_fake_data from its loop on: the rows of all days are
\* inserted with the sequence numbers from the one read on and the ids the
\* table gives now, and one commit stores them
add_fake_data_insert ==
    /\ script.op = "add_realistic_fake_data"
    /\ \E batch \in FakeBatches(script.args.days_back, script.args,
                                 script.at, ukOffset) :
          LET new_ids == next_id..(next_id + Len(batch) - 1)
              stored == [i \in new_ids |->
                            [batch[i - next_id + 1] EXCEPT
                                !.id = i,
                                !.request_id =
                                    FormatId(current_year,
                                             script.seq + i - next_id)]]
          IN  /\ rows' = [i \in DOMAIN rows \cup new_ids |->
                             IF i \in new_ids THEN stored[i] ELSE rows[i]]
              /\ next_id' = next_id + Len(batch)
              /\ issued' = [i \in DOMAIN issued \cup new_ids |->
                               IF i \in new_ids THEN stored[i].request_id
                               ELSE issued[i]]
    /\ script' = NoScript
    /\ UNCHANGED <<now, holidays, ukOffset, pc, data, rid, resp, updates,
                   calc, hostOffset, stat, query>>

\* a database file: its echo_requests rows and seq of sqlite_sequence, the
\* highest id its AUTOINCREMENT has given, which a DELETE does not lower
DbFile(store, seq) == [rows |-> store, next_id |-> seq + 1]

\* a row written by no code of the repository: GREEN with a deadline an hour
\* after the request, completed without a completion_time
ForeignRow ==
    [NewRow(1, FormatId(current_year, 1), GREEN,
            Aware(At(1, 0, 10, 0), BstOff), Aware(At(1, 0, 11, 0), BstOff),
            DateOf(At(1, 0, 10, 0)))
     EXCEPT !.status = "completed"]

\* the files a client uploads: a copy of the database that holds the row of
\* the previous year, a copy taken after that row was deleted, and a
\* database of the same schema filled by other means
ImportFiles ==
    {DbFile(InsertRow(EmptyStore, OldRow), 1),
     DbFile(EmptyStore, 1),
     DbFile(InsertRow(EmptyStore, ForeignRow), 1)}

\* the multipart body: has is whether the part 'database' is there,
\* filename what the client called the file
ImportUploads ==
    {[has |-> h, filename |-> f, file |-> d] :
        h \in BOOLEAN, f \in {"", "echo.db", "echo.txt"}, d \in ImportFiles}

\* file.filename.endswith('.db'), over the names of ImportUploads
EndsWithDb(filename) == filename \in {"echo.db"}

\* import_database: the uploaded file is saved over the database, after a
\* backup of the old one
import_database(upload) ==
    /\ IF ~upload.has \/ upload.filename = "" \/ ~EndsWithDb(upload.filename)
       THEN /\ resp' = Response("import_database", BadRequest, TRUE)
            /\ UNCHANGED <<rows, next_id, issued>>
       ELSE /\ rows' = upload.file.rows
            /\ next_id' = upload.file.next_id
            /\ issued' = [i \in DOMAIN upload.file.rows |->
                             upload.file.rows[i].request_id]
            /\ resp' = Response("import_database", Ok, TRUE)
    /\ UNCHANGED <<now, holidays, ukOffset, pc, data, rid, updates, calc,
                   hostOffset, stat, script, query>>

\* time passes
Tick ==
    /\ now + TickMin <= Now0 + MaxTicks * TickMin
    /\ now' = now + TickMin
    /\ UNCHANGED <<rows, next_id, holidays, ukOffset, pc, data, rid, resp,
                   issued, updates, calc, hostOffset, stat, script, query>>

AddRequestRead ==
    \E t \in Threads, body \in AddBodies :
        /\ next_id + InFlight + FakeInFlight <= MaxId
        /\ add_request_read(t, body)
AddRequestInsert == \E t \in Threads : add_request_insert(t)
MarkCompleted == \E body \in IdBodies(MaxId) : mark_completed(body)
UndoCompleted == \E body \in IdBodies(MaxId) : undo_completed(body)
DeleteRequest == \E body \in IdBodies(MaxId) : delete_request(body)
UpdateNotes == \E body \in IdBodies(MaxId), v \in FieldValues : update_notes(body, v)
UpdateName == \E body \in IdBodies(MaxId), v \in FieldValues : update_name(body, v)
UpdateMrn == \E body \in IdBodies(MaxId), v \in FieldValues : update_mrn(body, v)
UpdateWard == \E body \in IdBodies(MaxId), v \in FieldValues : update_ward(body, v)
AddFakeDataSelect == \E args \in FakeArgs : add_fake_data_select(args)
ImportDatabase == \E upload \in ImportUploads : import_database(upload)

\* The request store: the handlers that create, complete, reopen, edit and
\* delete a request, add_request on two threads at once
NextCore ==
    \/ AddRequestRead
    \/ AddRequestInsert
    \/ MarkCompleted
    \/ UndoCompleted
    \/ DeleteRequest
    \/ UpdateNotes
    \/ UpdateName
    \/ UpdateMrn
    \/ UpdateWard
    \/ Tick

SpecCore == Init /\ [][NextCore]_vars

\* The server with what else writes the table: the script add_fake_data.py
\* run beside it and the upload of a database file
Next ==
    \/ NextCore
    \/ AddFakeDataSelect
    \/ add_fake_data_insert
    \/ ImportDatabase

Spec == Init /\ [][Next]_vars

-----------------------------------------------------------------------------
(* One add_request at a time: creations and deletions in sequence *)

SeqAddRequestRead ==
    \E t \in Threads, body \in AddBodies :
        /\ InFlight = 0
        /\ next_id <= MaxSeqId
        /\ add_request_read(t, body)
SeqDeleteRequest == \E body \in IdBodies(MaxSeqId) : delete_request(body)

NextSeq ==
    \/ SeqAddRequestRead
    \/ AddRequestInsert
    \/ SeqDeleteRequest

SpecSeq == Init /\ [][NextSeq]_vars

\* Stores holding the ids of the current year with the sequence numbers of
\* a set, and perhaps the row of the previous year
RECURSIVE StoreOf(_, _)
StoreOf(seqs, store) ==
    IF seqs = {} THEN store
    ELSE LET n == CHOOSE x \in seqs : \A y \in seqs : x <= y
             id == Cardinality(DOMAIN store) + 1
             t == Aware(At(0, 1, 10, 0), BstOff)
         IN  StoreOf(seqs \ {n},
                     InsertRow(store,
                               NewRow(id, FormatId(current_year, n), GREEN, t, t, 1)))

SeqSamples == {1, 9, 10, 9998, 9999, 10000}

IdStores ==
    {StoreOf(S, base) :
        S \in {T \in SUBSET SeqSamples : Cardinality(T) <= MaxSeqId - 1},
        base \in InitStores}

InitIds == InitWith(IdStores, {{NextMonday}}, {BstOff})

SpecIds == InitIds /\ [][NextSeq]_vars

-----------------------------------------------------------------------------
(* The deadline calculator on its own *)

\* every half hour of the weeks from Monday of week 1
CalcStarts ==
    {At(1, 0, 0, 0) + k * TickHalf :
        k \in 0..(CalcWeeks * WeekDays * DayHours * 2 - 1)}

CalcHours == {0, PurpleHours, RedHours, AmberHours}

\* one call of add_working_hours_uk
Calc ==
    /\ ~calc.called
    /\ \E start_date \in CalcStarts, hours \in CalcHours :
          calc' = [start |-> start_date, hours |-> hours,
                   result |-> add_working_hours_uk(start_date, hours, holidays),
                   called |-> TRUE]
    /\ UNCHANGED <<rows, next_id, now, holidays, ukOffset, pc, data, rid, resp,
                   issued, updates, hostOffset, stat, script, query>>

InitCalc == InitWith({EmptyStore}, HolidaySets, {GmtOff, BstOff})

NextCalc == Calc

SpecCalc == InitCalc /\ [][NextCalc]_vars

-----------------------------------------------------------------------------
(* add_request over many request times *)

\* rows created in one run of the creation specification
MaxWideId == 1

\* request times around the weekend after week 1 and its Monday: Thursday
\* afternoon, Friday late evening, Saturday noon, Sunday late evening,
\* Monday morning, Tuesday late evening
CreateTimes ==
    {At(1, 3, 14, 30), At(1, 4, 23, 30), At(1, 5, 12, 0), At(1, 6, 23, 30),
     At(2, 0, 9, 0), At(2, 1, 23, 15)}

\* request_time strings without an offset and with the offset +01:00
CreateIsoInputs ==
    {GoodIso(NaiveDt(t)) : t \in CreateTimes} \cup
    {GoodIso(Aware(t, BstOff)) : t \in CreateTimes}

CreateBodies ==
    {[has |-> TRUE, pathway |-> p, request_time |-> t] :
        p \in {PURPLE, RED, AMBER, GREEN}, t \in CreateIsoInputs}

CreateRequestRead ==
    \E t \in Threads, body \in CreateBodies :
        /\ InFlight = 0
        /\ next_id <= MaxWideId
        /\ add_request_read(t, body)
CreateMarkCompleted == \E body \in IdBodies(MaxWideId) : mark_completed(body)
CreateUndoCompleted == \E body \in IdBodies(MaxWideId) : undo_completed(body)

InitCreate == InitWith({EmptyStore}, HolidaySets, {GmtOff, BstOff})

NextCreate ==
    \/ CreateRequestRead
    \/ AddRequestInsert
    \/ CreateMarkCompleted
    \/ CreateUndoCompleted

SpecCreate == InitCreate /\ [][NextCreate]_vars

-----------------------------------------------------------------------------
(* The statistics queries *)

\* timedelta(days=30): the window of the daily statistics
WindowDays == 30

\* SQLite datetime(x) of a stored ISO string: the offset is applied, so the
\* value is the UTC time, in minutes on the scale of the day numbers
SqlDatetime(dt) == dt.wall - dt.off
\* datetime(dates.date) and datetime(dates.date, '+1 day'): a date has no
\* offset and is taken as 00:00 UTC of that day
SqlDayStart(d) == d * DayMin
SqlNextDay(d) == (d + 1) * DayMin

\* datetime.now(): the wall clock of the host's local zone, without offset
HostNow(t, ukoff, hostoff) == t - ukoff + hostoff

\* the dates CTE: start_date .. end_date, end_date being today on the host
Dates(t, ukoff, hostoff) ==
    LET end_date == DateOf(HostNow(t, ukoff, hostoff))
        start_date == end_date - WindowDays
    IN  start_date..end_date

\* the join condition with completed rows counted whatever their
\* completion_time
OverdueOnAnyCompletion(r, d) ==
    /\ r.pathway \notin {GREEN, REJECTED}
    /\ SqlDatetime(r.expected_time) < SqlNextDay(d)
    /\ SqlDatetime(r.request_time) <= SqlNextDay(d)

\* get_daily_overdue: the ON condition joining row r to day d; a comparison
\* with a NULL completion_time is not true
OverdueOn(r, d) ==
    /\ r.pathway \notin {GREEN, REJECTED}
    /\ SqlDatetime(r.expected_time) < SqlNextDay(d)
    /\ SqlDatetime(r.request_time) <= SqlNextDay(d)
    /\ \/ r.status = "pending"
       \/ /\ r.status = "completed"
          /\ r.completion_time # NULL
          /\ SqlDatetime(r.completion_time) > SqlDayStart(d)
       \/ /\ r.status = "completed"
          /\ r.completion_time # NULL
          /\ SqlDatetime(r.completion_time) >= SqlDayStart(d)
          /\ SqlDatetime(r.completion_time) < SqlNextDay(d)
          /\ SqlDatetime(r.completion_time) > SqlDatetime(r.expected_time)

\* COUNT(DISTINCT r.id) per day of get_daily_overdue
DailyOverdue(store, t, ukoff, hostoff) ==
    [d \in Dates(t, ukoff, hostoff) |->
        Cardinality({i \in DOMAIN store : OverdueOn(store[i], d)})]

\* the join condition that takes only the rows still pending
PendingOnOpenOnly(r, d) ==
    /\ r.pathway \notin {GREEN, REJECTED}
    /\ SqlDatetime(r.request_time) <= SqlNextDay(d)
    /\ r.status = "pending"

\* get_daily_max_pending: the ON condition joining row r to day d
PendingOn(r, d) ==
    /\ r.pathway \notin {GREEN, REJECTED}
    /\ SqlDatetime(r.request_time) <= SqlNextDay(d)
    /\ \/ r.status = "pending"
       \/ /\ r.completion_time # NULL
          /\ SqlDatetime(r.completion_time) >= SqlDayStart(d)

\* COUNT(DISTINCT r.id) per day of get_daily_max_pending
DailyMaxPending(store, t, ukoff, hostoff) ==
    [d \in Dates(t, ukoff, hostoff) |->
        Cardinality({i \in DOMAIN store : PendingOn(store[i], d)})]

\* get_overdue_count: the WHERE clause; datetime(?) of the host's now, a
\* string without offset, is that wall-clock time taken as it stands
CurrentlyOverdue(r, host_now) ==
    /\ r.status = "pending"
    /\ r.pathway \notin {GREEN, REJECTED}
    /\ SqlDatetime(r.expected_time) < host_now
    /\ SqlDatetime(r.request_time) <= host_now

\* SELECT COUNT(*) of get_overdue_count
OverdueCount(store, t, ukoff, hostoff) ==
    Cardinality({i \in DOMAIN store :
                    CurrentlyOverdue(store[i], HostNow(t, ukoff, hostoff))})

\* an answer of a query
Answer(op, count, daily, list) ==
    [op |-> op, count |-> count, daily |-> daily, list |-> list]

get_daily_overdue ==
    /\ stat' = Answer("get_daily_overdue", 0,
                      DailyOverdue(rows, now, ukOffset, hostOffset), <<>>)
    /\ UNCHANGED <<rows, next_id, now, holidays, ukOffset, pc, data, rid, resp,
                   issued, updates, calc, hostOffset, script, query>>

get_daily_max_pending ==
    /\ stat' = Answer("get_daily_max_pending", 0,
                      DailyMaxPending(rows, now, ukOffset, hostOffset), <<>>)
    /\ UNCHANGED <<rows, next_id, now, holidays, ukOffset, pc, data, rid, resp,
                   issued, updates, calc, hostOffset, script, query>>

get_overdue_count ==
    /\ stat' = Answer("get_overdue_count",
                      OverdueCount(rows, now, ukOffset, hostOffset), <<>>, <<>>)
    /\ UNCHANGED <<rows, next_id, now, holidays, ukOffset, pc, data, rid, resp,
                   issued, updates, calc, hostOffset, script, query>>

\* rows of the stores the statistics are asked about
MaxStatRows == 2
\* rows of the stores on which a completion is undone
MaxUndoRows == 1

\* request times of the stored rows, London wall clock: Tuesday 22:30,
\* Wednesday 00:30 and Friday 07:30 of week 1, the last half an hour before
\* the clock of the first state
StatRequestTimes == {At(1, 1, 22, 30), At(1, 2, 0, 30), At(1, 4, 7, 30)}

\* times at which mark_completed ran, London wall clock: Tuesday 23:00,
\* Wednesday 00:00 and 01:00, Thursday 12:00
StatCompletionTimes ==
    {At(1, 1, 23, 0), At(1, 2, 0, 0), At(1, 2, 1, 0), At(1, 3, 12, 0)}

\* the row add_request stores when called at clock with a pathway and a
\* request time, with the id and request_id of the n-th row of the year;
\* triage_date is the London date of the call
CreatedRow(n, pathway, wall, clock, hol, ukoff) ==
    LET current_time == get_uk_time(clock, ukoff)
        request_time == Aware(wall, ukoff)
    IN  NewRow(n, FormatId(current_year, n), pathway,
               uk_time_to_iso(request_time, ukoff),
               uk_time_to_iso(ExpectedTime(pathway, request_time, hol), ukoff),
               DateOf(current_time.wall))

\* a row left pending: add_request was called at the request time it was
\* given
PendingRow(n, pathway, wall, hol, ukoff) ==
    CreatedRow(n, pathway, wall, wall, hol, ukoff)

\* a row on which mark_completed ran at clock c: add_request was called at
\* the request time it was given, or at c when that request time was still
\* to come
CompletedRow(n, pathway, wall, c, hol, ukoff) ==
    MarkRow(CreatedRow(n, pathway, wall, IF wall <= c THEN wall ELSE c,
                       hol, ukoff),
            uk_time_to_iso(get_uk_time(c, ukoff), ukoff))

\* the rows a store may hold as its n-th: created by add_request, and then
\* left pending or marked completed at one of the completion times
StatRows(n, hol, ukoff) ==
    {PendingRow(n, p, t, hol, ukoff) :
        p \in {PURPLE, AMBER, GREEN, REJECTED}, t \in StatRequestTimes}
    \cup
    {CompletedRow(n, p, t, c, hol, ukoff) :
        p \in {PURPLE, AMBER, GREEN, REJECTED}, t \in StatRequestTimes,
        c \in StatCompletionTimes}

\* the store holding the rows f[1], f[2], ... in this order, the k-th with
\* the id and the request_id of the k-th row of the year
NumberedStore(f) ==
    [k \in DOMAIN f |->
        [f[k] EXCEPT !.id = k, !.request_id = FormatId(current_year, k)]]

\* the server started on a stored table; the host keeps UTC or London time
InitStat(max_rows) ==
    /\ holidays = {NextMonday}
    /\ ukOffset \in {GmtOff, BstOff}
    /\ hostOffset \in {UtcOff, ukOffset}
    /\ \E n \in 0..max_rows :
            \E f \in [1..n -> StatRows(1, holidays, ukOffset)] :
                rows = NumberedStore(f)
    /\ next_id = Cardinality(DOMAIN rows) + 1
    /\ now = Now0
    /\ pc = [t \in Threads |-> "idle"]
    /\ data = [t \in Threads |-> NoBody]
    /\ rid = [t \in Threads |-> NULL]
    /\ resp = NoResp
    /\ issued = [i \in DOMAIN rows |-> rows[i].request_id]
    /\ updates = 0
    /\ calc = NoCalc
    /\ stat = NoStat
    /\ script = NoScript
    /\ query = NoQuery

InitStats == InitStat(MaxStatRows)

NextStats ==
    \/ get_daily_overdue
    \/ get_daily_max_pending
    \/ get_overdue_count

SpecStats == InitStats /\ [][NextStats]_vars

UndoMarkCompleted == \E body \in IdBodies(MaxUndoRows) : mark_completed(body)
UndoUndoCompleted == \E body \in IdBodies(MaxUndoRows) : undo_completed(body)

\* the daily statistics are taken on a host keeping UTC: at the time of the
\* model the date of the host is the same in both zones
InitUndo == InitStat(MaxUndoRows) /\ hostOffset = UtcOff

NextUndo ==
    \/ UndoMarkCompleted
    \/ UndoUndoCompleted
    \/ get_daily_overdue
    \/ get_daily_max_pending

SpecUndo == InitUndo /\ [][NextUndo]_vars

-----------------------------------------------------------------------------
(* The listing *)

\* rows of the stores that are listed
MaxListRows == 3

\* a value of an ORDER BY term: NULL or a number
SqlNull == [null |-> TRUE, v |-> 0]
SqlInt(v) == [null |-> FALSE, v |-> v]

\* time_left of the CTE: julianday(expected_time) - julianday(now) for a
\* pending row that is not GREEN, else NULL; julianday converts to UTC
TimeLeft(r, host_now) ==
    IF r.status = "pending" /\ r.pathway \notin {GREEN}
    THEN SqlInt(SqlDatetime(r.expected_time) - host_now)
    ELSE SqlNull

\* the first ORDER BY term: 3 completed, 2 GREEN or REJECTED, 1 the rest
Tier(r) ==
    IF r.status = "completed" THEN 3
    ELSE IF r.pathway \in {GREEN, REJECTED} THEN 2
    ELSE 1

\* the second ORDER BY term with the sign of time_left turned round
UrgencyLatestFirst(r, host_now) ==
    IF r.status = "completed" THEN SqlNull
    ELSE IF r.pathway \in {GREEN, REJECTED} THEN SqlNull
    ELSE LET left == TimeLeft(r, host_now)
         IN  IF left.null THEN left ELSE SqlInt(0 - left.v)

\* the second ORDER BY term: time_left of the rows of tier 1, else NULL
Urgency(r, host_now) ==
    IF r.status = "completed" THEN SqlNull
    ELSE IF r.pathway \in {GREEN, REJECTED} THEN SqlNull
    ELSE TimeLeft(r, host_now)

\* a stored completion_time as the TEXT it is compared as: the wall-clock
\* digits come first in the string, the offset last
TextOfTime(dt) == dt.wall * DayMin + dt.off

\* the third ORDER BY term: completion_time of the completed rows;
\* CAST(request_id AS INTEGER) of the others of GREEN and REJECTED, which
\* is the number before the dot of 'YY.NNNN'; else NULL
Recency(r) ==
    IF r.status = "completed"
    THEN IF r.completion_time = NULL THEN SqlNull
         ELSE SqlInt(TextOfTime(r.completion_time))
    ELSE IF r.pathway \in {GREEN, REJECTED}
    THEN SqlInt(r.request_id.yy)
    ELSE SqlNull

\* ASC NULLS LAST, and DESC, under which SQLite puts NULL last as well
AscNullsLast(a, b) == ~a.null /\ (b.null \/ a.v < b.v)
Desc(a, b) == ~a.null /\ (b.null \/ a.v > b.v)

\* the ORDER BY puts row a strictly before row b
SortsBefore(a, b, host_now) ==
    \/ Tier(a) < Tier(b)
    \/ /\ Tier(a) = Tier(b)
       /\ \/ AscNullsLast(Urgency(a, host_now), Urgency(b, host_now))
          \/ /\ Urgency(a, host_now) = Urgency(b, host_now)
             /\ Desc(Recency(a), Recency(b))

\* the SELECT list for a row: REJECTED is shown as GREEN PATHWAY
Listed(r) ==
    [id |-> r.id,
     pathway |-> IF r.pathway = REJECTED THEN GREEN ELSE r.pathway]

\* the result sets the query may return: every row once, in an order the
\* ORDER BY allows; rows equal in all three terms come in either order
Listings(store, host_now) ==
    LET n == Cardinality(DOMAIN store)
        orders == {o \in [1..n -> DOMAIN store] :
                      /\ \A i, j \in 1..n : i # j => o[i] # o[j]
                      /\ \A i, j \in 1..n :
                            i < j => ~SortsBefore(store[o[j]], store[o[i]],
                                                  host_now)}
    IN  {[k \in 1..n |-> Listed(store[o[k]])] : o \in orders}

get_requests ==
    /\ \E list \in Listings(rows, HostNow(now, ukOffset, hostOffset)) :
          stat' = Answer("get_requests", 0, <<>>, list)
    /\ UNCHANGED <<rows, next_id, now, holidays, ukOffset, pc, data, rid, resp,
                   issued, updates, calc, hostOffset, script, query>>

\* request times of the listed rows: Tuesday 22:30 and Friday 07:30
ListRequestTimes == {At(1, 1, 22, 30), At(1, 4, 7, 30)}
\* times at which mark_completed ran: Wednesday 01:00 and Thursday 12:00
ListCompletionTimes == {At(1, 2, 1, 0), At(1, 3, 12, 0)}

\* the rows a store may hold as its n-th: PURPLE rows requested at either
\* time (due on Tuesday and on Friday) and RED rows requested on Tuesday
\* (due on Wednesday), left pending or marked completed on Thursday; GREEN
\* and REJECTED rows requested on Tuesday, left pending or marked completed
\* at either completion time
ListRows(n, hol, ukoff) ==
    LET timed == {<<PURPLE, t>> : t \in ListRequestTimes}
                 \cup {<<RED, At(1, 1, 22, 30)>>}
        untimed == {<<p, At(1, 1, 22, 30)>> : p \in {GREEN, REJECTED}}
    IN  {PendingRow(n, x[1], x[2], hol, ukoff) : x \in timed \cup untimed}
        \cup
        {CompletedRow(n, x[1], x[2], At(1, 3, 12, 0), hol, ukoff) :
            x \in timed}
        \cup
        {CompletedRow(n, x[1], x[2], c, hol, ukoff) :
            x \in untimed, c \in ListCompletionTimes}

\* the server started on a stored table, in summer time, on a host keeping
\* UTC (the order of the listing does not depend on the host's clock)
InitList ==
    /\ holidays = {NextMonday}
    /\ ukOffset = BstOff
    /\ hostOffset = UtcOff
    /\ \E n \in 0..MaxListRows :
            \E f \in [1..n -> ListRows(1, holidays, ukOffset)] :
                rows = NumberedStore(f)
    /\ next_id = Cardinality(DOMAIN rows) + 1
    /\ now = Now0
    /\ pc = [t \in Threads |-> "idle"]
    /\ data = [t \in Threads |-> NoBody]
    /\ rid = [t \in Threads |-> NULL]
    /\ resp = NoResp
    /\ issued = [i \in DOMAIN rows |-> rows[i].request_id]
    /\ updates = 0
    /\ calc = NoCalc
    /\ stat = NoStat
    /\ script = NoScript
    /\ query = NoQuery

NextList == get_requests

SpecList == InitList /\ [][NextList]_vars

-----------------------------------------------------------------------------
(* The daily counts by pathway and the listing beside changes of status *)

\* rows of the stores of this specification
MaxDailyRows == 1

PERFORMED == "PERFORMED"

\* SQLite date(x) and strftime('%Y-%m-%d', x) of a stored ISO string: the
\* day of the UTC time
SqlDate(dt) == DateOf(SqlDatetime(dt))

\* the window of get_daily_stats: end_date is the London date of now
StatsDates(t, ukoff) ==
    LET end_date == DateOf(get_uk_time(t, ukoff).wall)
        start_date == end_date - WindowDays
    IN  start_date..end_date

\* the first SELECT with REJECTED rows put under GREEN PATHWAY
PathwayResultsRelabelled(store, t, ukoff) ==
    [d \in StatsDates(t, ukoff) |->
        [k \in valid_pathways |->
            Cardinality({i \in DOMAIN store :
                            /\ store[i].triage_date = d
                            /\ Listed(store[i]).pathway = k})]]

\* get_daily_stats, pathway_results: the first SELECT, the rows triaged on
\* each day of the window, by pathway
PathwayResults(store, t, ukoff) ==
    [d \in StatsDates(t, ukoff) |->
        [k \in valid_pathways |->
            Cardinality({i \in DOMAIN store :
                            /\ store[i].triage_date = d
                            /\ store[i].pathway = k})]]

\* get_daily_stats, completed_results: the second SELECT, the completed
\* rows whose completion_time has the date of each day of the window
CompletedResults(store, t, ukoff) ==
    [d \in StatsDates(t, ukoff) |->
        Cardinality({i \in DOMAIN store :
                        /\ store[i].status = "completed"
                        /\ store[i].completion_time # NULL
                        /\ SqlDate(store[i].completion_time) = d})]

\* get_daily_stats, stats: an entry for every day of the window, filled
\* from the results of the two SELECTs
Stats(pathway_results, completed_results) ==
    [d \in DOMAIN pathway_results |->
        [k \in valid_pathways \cup {PERFORMED} |->
            IF k = PERFORMED THEN completed_results[d]
            ELSE pathway_results[d][k]]]

\* the answer of get_daily_stats when no write falls between its SELECTs
DailyStats(store, t, ukoff) ==
    Stats(PathwayResults(store, t, ukoff), CompletedResults(store, t, ukoff))

\* get_daily_stats up to pathway_results = c.fetchall(): the clock is
\* read and the first SELECT runs
get_daily_stats_pathways ==
    /\ query.op = "none"
    /\ query' = [op |-> "get_daily_stats", at |-> now,
                 part |-> <<PathwayResults(rows, now, ukOffset)>>]
    /\ UNCHANGED <<rows, next_id, now, holidays, ukOffset, pc, data, rid, resp,
                   issued, updates, calc, hostOffset, stat, script>>

\* get_daily_stats from the second SELECT on: it reads the table as it is
\* now, and the answer is made of both results
get_daily_stats_completed ==
    /\ query.op = "get_daily_stats"
    /\ stat' = Answer("get_daily_stats", 0,
                      Stats(query.part[1],
                            CompletedResults(rows, query.at, ukOffset)),
                      <<>>)
    /\ query' = NoQuery
    /\ UNCHANGED <<rows, next_id, now, holidays, ukOffset, pc, data, rid, resp,
                   issued, updates, calc, hostOffset, script>>

\* the rows a store may hold as its n-th: PURPLE, GREEN and REJECTED rows
\* requested on Tuesday or on Friday, left pending or marked completed on
\* Thursday at 12:00
DailyRows(n, hol, ukoff) ==
    {PendingRow(n, p, t, hol, ukoff) :
        p \in {PURPLE, GREEN, REJECTED}, t \in ListRequestTimes}
    \cup
    {CompletedRow(n, p, t, At(1, 3, 12, 0), hol, ukoff) :
        p \in {PURPLE, GREEN, REJECTED}, t \in ListRequestTimes}

\* the clock: Friday 08:00, or Saturday 00:30, when in summer the day in
\* London is a day ahead of the day in UTC
DailyTimes == {Now0, At(1, 5, 0, 30)}

InitDaily ==
    /\ holidays = {NextMonday}
    /\ ukOffset \in {GmtOff, BstOff}
    /\ hostOffset \in {UtcOff, ukOffset}
    /\ \E n \in 0..MaxDailyRows :
            \E f \in [1..n -> DailyRows(1, holidays, ukOffset)] :
                rows = NumberedStore(f)
    /\ next_id = Cardinality(DOMAIN rows) + 1
    /\ now \in DailyTimes
    /\ pc = [t \in Threads |-> "idle"]
    /\ data = [t \in Threads |-> NoBody]
    /\ rid = [t \in Threads |-> NULL]
    /\ resp = NoResp
    /\ issued = [i \in DOMAIN rows |-> rows[i].request_id]
    /\ updates = 0
    /\ calc = NoCalc
    /\ stat = NoStat
    /\ script = NoScript
    /\ query = NoQuery

DailyMarkCompleted == \E body \in IdBodies(MaxDailyRows) : mark_completed(body)
DailyUndoCompleted == \E body \in IdBodies(MaxDailyRows) : undo_completed(body)

NextDaily ==
    \/ DailyMarkCompleted
    \/ DailyUndoCompleted
    \/ get_daily_stats_pathways
    \/ get_daily_stats_completed
    \/ get_daily_overdue
    \/ get_daily_max_pending
    \/ get_requests

SpecDaily == InitDaily /\ [][NextDaily]_vars

-----------------------------------------------------------------------------
(* The listing and the daily counts by pathway beside every handler that *)
(* writes a row                                                           *)

\* JSON bodies of add_request: GREEN and REJECTED requests of Friday 07:30
RelabelBodies ==
    {[has |-> TRUE, pathway |-> p,
      request_time |-> GoodIso(Aware(At(1, 4, 7, 30), BstOff))] :
        p \in {GREEN, REJECTED}}

\* one add_request at a time, up to the highest id of a run
RelabelRequestRead ==
    \E body \in RelabelBodies :
        /\ InFlight = 0
        /\ next_id <= MaxId
        /\ add_request_read("t1", body)

\* the server started on an empty table, in summer time
InitRelabel ==
    /\ rows = EmptyStore
    /\ next_id = 1
    /\ now = Now0
    /\ holidays = {NextMonday}
    /\ ukOffset = BstOff
    /\ hostOffset = UtcOff
    /\ pc = [t \in Threads |-> "idle"]
    /\ data = [t \in Threads |-> NoBody]
    /\ rid = [t \in Threads |-> NULL]
    /\ resp = NoResp
    /\ issued = <<>>
    /\ updates = 0
    /\ calc = NoCalc
    /\ stat = NoStat
    /\ script = NoScript
    /\ query = NoQuery

NextRelabel ==
    \/ RelabelRequestRead
    \/ AddRequestInsert
    \/ MarkCompleted
    \/ UndoCompleted
    \/ DeleteRequest
    \/ UpdateNotes
    \/ UpdateName
    \/ UpdateMrn
    \/ UpdateWard
    \/ get_requests
    \/ get_daily_stats_pathways
    \/ get_daily_stats_completed

SpecRelabel == InitRelabel /\ [][NextRelabel]_vars

-----------------------------------------------------------------------------
(* The maintenance script fix_overdue_data.py *)

\* rows of the stores the script runs on
MaxFixRows == 2

\* completion_rate=0.7, as tenths
CompletionRateTenths == 7
Tenths == 10
\* random.randint(1, min(48, ...)): the hours past the deadline at which an
\* overdue row is said to have been completed
MaxLateHours == 48
\* random.randint(1, 24): the hours before now of the fallback completion
FallbackHours == 1..24
\* timedelta(days=random.randint(1, 3), hours=random.randint(0, 8))
ExtendDays == 1..3
ExtendHours == 0..8

\* the WHERE clause of the script's SELECT: pending, timed, deadline before
\* now; both sides carry an offset and are compared as instants
FixOverdue(r, now_dt) ==
    /\ r.status = "pending"
    /\ r.pathway \notin {GREEN, REJECTED}
    /\ SqlDatetime(r.expected_time) < SqlDatetime(now_dt)

\* the orders in which the SELECT, which has no ORDER BY, may return the ids
ScanOrders(ids) ==
    LET n == Cardinality(ids)
    IN  {o \in [1..n -> ids] : \A i, j \in 1..n : i # j => o[i] # o[j]}

\* the largest power of two that is at most k, for k >= 1
RECURSIVE FloorPow2(_)
FloorPow2(k) == IF k < 2 THEN 1 ELSE 2 * FloorPow2(k \div 2)

\* int(len(overdue_requests) * completion_rate): the product of doubles.
\* 0.7 is held as the double 0.4 * 2^-53 below seven tenths, so the exact
\* product is 7n/10 less 0.4n * 2^-53.  Where 7n/10 is not whole, the
\* rounded product keeps its whole part.  Where 7n/10 is a whole number K
\* with 2^e <= K < 2^(e+1), the doubles below K are 2^(e-52) apart and the
\* product is rounded up to K when the shortfall (4K/7) * 2^-53 is at most
\* half of that (a tie goes to K, whose significand is even), which is
\* 4K <= 7 * 2^e; otherwise it is rounded to a double below K and int()
\* gives K - 1 (n = 90 gives 62)
NumToComplete(n) ==
    LET K == (n * CompletionRateTenths) \div Tenths
    IN  IF (n * CompletionRateTenths) % Tenths = 0 /\ K > 0
           /\ 4 * K > CompletionRateTenths * FloorPow2(K)
        THEN K - 1
        ELSE K

\* int((now - expected_dt).total_seconds() / 3600)
HoursSince(now_dt, expected_dt) ==
    (SqlDatetime(now_dt) - SqlDatetime(expected_dt)) \div HourMin

\* the upper end of random.randint(1, ...) for the hours late
LateRange(now_dt, expected_dt) ==
    IF HoursSince(now_dt, expected_dt) < MaxLateHours
    THEN HoursSince(now_dt, expected_dt) ELSE MaxLateHours

\* the branch i < num_to_complete: UPDATE ... SET status = 'completed',
\* completion_time = ? WHERE id = ?, with the deadline the SELECT returned
\* plus hours_late, or a time before now when that would be in the future;
\* the string keeps the offset of the datetime it is made from
FixCompleted(r, expected_time, now_dt, hours_late, fallback) ==
    LET completion_time ==
            Aware(expected_time.wall + hours_late * HourMin, expected_time.off)
    IN  IF SqlDatetime(completion_time) > SqlDatetime(now_dt)
        THEN MarkRow(r, Aware(now_dt.wall - fallback * HourMin, now_dt.off))
        ELSE MarkRow(r, completion_time)

\* the other branch and --extend-only: UPDATE ... SET expected_time = ?
\* WHERE id = ? with now + timedelta(days, hours)
FixExtended(r, now_dt, days, hours) ==
    [r EXCEPT !.expected_time =
        Aware(now_dt.wall + days * DayMin + hours * HourMin, now_dt.off)]

\* what the loop may make of the stored row r for an entry of the SELECT
\* with deadline expected_time: completed at that deadline plus any of the
\* hours random.randint(1, ...) may draw, or given any of the deadlines
\* now + timedelta(days, hours)
FixOutcomes(r, expected_time, now_dt, completes) ==
    IF completes
    THEN {FixCompleted(r, expected_time, now_dt, hours_late, fallback) :
              hours_late \in 1..LateRange(now_dt, expected_time),
              fallback \in FallbackHours}
    ELSE {FixExtended(r, now_dt, days, hours) :
              days \in ExtendDays, hours \in ExtendHours}

\* the tables the loop may leave after the first k entries of the list the
\* SELECT returned, the first num_to_complete of them being completed; an
\* UPDATE whose id is no longer stored changes nothing
RECURSIVE FixedStores(_, _, _, _, _)
FixedStores(store, list, k, num_to_complete, now_dt) ==
    IF k = 0 THEN {store}
    ELSE IF list[k].id \notin DOMAIN store
    THEN FixedStores(store, list, k - 1, num_to_complete, now_dt)
    ELSE {[s EXCEPT ![list[k].id] = r] :
              s \in FixedStores(store, list, k - 1, num_to_complete, now_dt),
              r \in FixOutcomes(store[list[k].id], list[k].expected_time,
                                now_dt, k <= num_to_complete)}

\* fix_overdue_requests up to the print of line 40: the clock is read and
\* the SELECT returns the overdue rows, in an order of its own; with none
\* the script ends there.  No transaction is open after the SELECT
fix_overdue_select(mark_flag) ==
    LET now_dt == get_uk_time(now, ukOffset)
        overdue == {i \in DOMAIN rows : FixOverdue(rows[i], now_dt)}
        n == Cardinality(overdue)
    IN  /\ script.op = "none"
        /\ \E o \in ScanOrders(overdue) :
              script' = IF n = 0 THEN NoScript
                        ELSE [op |-> "fix_overdue_requests", args |-> NoArgs,
                              mark |-> mark_flag, at |-> now, seq |-> 0,
                              list |-> [k \in 1..n |->
                                  [id |-> o[k],
                                   expected_time |-> rows[o[k]].expected_time]]]
        /\ stat' = Answer("fix_overdue_requests", n, <<>>, <<>>)
        /\ UNCHANGED <<rows, next_id, now, holidays, ukOffset, pc, data, rid,
                       resp, issued, updates, calc, hostOffset, query>>

\* fix_overdue_requests from its loop on: the first num_to_complete rows of
\* the list are marked completed and the others given a new deadline, each
\* by an UPDATE on the id, and one commit stores them; random.randint(1, 0)
\* raises for a row less than an hour late, and the script ends before its
\* commit
fix_overdue_update ==
    LET now_dt == get_uk_time(script.at, ukOffset)
        n == Len(script.list)
        num_to_complete == IF script.mark THEN NumToComplete(n) ELSE 0
        raised == \E k \in 1..n :
                      /\ k <= num_to_complete
                      /\ LateRange(now_dt, script.list[k].expected_time) < 1
    IN  /\ script.op = "fix_overdue_requests"
        /\ IF raised THEN rows' = rows
           ELSE rows' \in FixedStores(rows, script.list, n, num_to_complete,
                                      now_dt)
        /\ script' = NoScript
        /\ UNCHANGED <<next_id, now, holidays, ukOffset, pc, data, rid, resp,
                       issued, updates, calc, hostOffset, stat, query>>

\* the script run an hour after the clock of the other first states: Friday
\* 09:00
FixTimes == {Now0 + HourMin}

\* the rows a store may hold as its n-th when the script runs: PURPLE rows
\* requested on Tuesday at 22:30, on Friday at 04:30 and on Friday at 07:30
\* (due at 08:30, so not yet an hour late) and a GREEN row,
\* all pending, and a PURPLE row completed on Thursday
FixRows(n, hol, ukoff) ==
    {PendingRow(n, PURPLE, t, hol, ukoff) :
        t \in {At(1, 1, 22, 30), At(1, 4, 4, 30), At(1, 4, 7, 30)}}
    \cup
    {PendingRow(n, GREEN, At(1, 1, 22, 30), hol, ukoff),
     CompletedRow(n, PURPLE, At(1, 1, 22, 30), At(1, 3, 12, 0), hol, ukoff)}

InitFix ==
    /\ holidays = {NextMonday}
    /\ ukOffset = BstOff
    /\ hostOffset = UtcOff
    /\ \E n \in 0..MaxFixRows :
            \E f \in [1..n -> FixRows(1, holidays, ukOffset)] :
                rows = NumberedStore(f)
    /\ next_id = Cardinality(DOMAIN rows) + 1
    /\ now \in FixTimes
    /\ pc = [t \in Threads |-> "idle"]
    /\ data = [t \in Threads |-> NoBody]
    /\ rid = [t \in Threads |-> NULL]
    /\ resp = NoResp
    /\ issued = [i \in DOMAIN rows |-> rows[i].request_id]
    /\ updates = 0
    /\ calc = NoCalc
    /\ stat = NoStat
    /\ script = NoScript
    /\ query = NoQuery

FixOverdueSelect == \E mark_flag \in BOOLEAN : fix_overdue_select(mark_flag)
FixMarkCompleted == \E body \in IdBodies(MaxFixRows) : mark_completed(body)
FixUndoCompleted == \E body \in IdBodies(MaxFixRows) : undo_completed(body)

NextFix ==
    \/ FixOverdueSelect
    \/ fix_overdue_update
    \/ FixMarkCompleted
    \/ FixUndoCompleted

SpecFix == InitFix /\ [][NextFix]_vars

-----------------------------------------------------------------------------
(* Today's counts beside creations, completions and deletions *)

\* rows created in one run of the counts of today
MaxTodayRows == 2

OVERDUE == "OVERDUE"

\* DATE('now') of SQLite: the date in UTC
SqlToday(t, ukoff) == DateOf(t - ukoff)

\* the OVERDUE query with the test on the status left out
TodayOverdueAnyStatus(r, host_now) ==
    /\ r.pathway \notin {GREEN, REJECTED}
    /\ SqlDatetime(r.expected_time) < host_now

\* get_today_stats: the WHERE of the OVERDUE query
TodayOverdue(r, host_now) ==
    /\ r.status = "pending"
    /\ r.pathway \notin {GREEN, REJECTED}
    /\ SqlDatetime(r.expected_time) < host_now

\* get_today_stats, results: the first SELECT, the pending rows of the
\* timed pathways by pathway
TodayResults(store) ==
    [k \in {PURPLE, RED, AMBER} |->
        Cardinality({i \in DOMAIN store :
                        /\ store[i].status = "pending"
                        /\ store[i].pathway = k})]

\* get_today_stats, completed_count: the second SELECT
TodayCompleted(store, t, ukoff) ==
    Cardinality({i \in DOMAIN store :
                    /\ store[i].status = "completed"
                    /\ store[i].completion_time # NULL
                    /\ SqlDate(store[i].completion_time) = SqlToday(t, ukoff)})

\* get_today_stats, green_count: the third SELECT
TodayGreen(store, t, ukoff) ==
    Cardinality({i \in DOMAIN store :
                    /\ store[i].pathway \in {GREEN, REJECTED}
                    /\ SqlDate(store[i].request_time) = SqlToday(t, ukoff)})

\* get_today_stats, overdue_count: the fourth SELECT
TodayOverdueCount(store, host_now) ==
    Cardinality({i \in DOMAIN store : TodayOverdue(store[i], host_now)})

\* get_today_stats: the counts dictionary
Counts(results, completed_count, green_count, overdue_count) ==
    [k \in {PURPLE, RED, AMBER, GREEN, PERFORMED, OVERDUE} |->
        IF k = GREEN THEN green_count
        ELSE IF k = PERFORMED THEN completed_count
        ELSE IF k = OVERDUE THEN overdue_count
        ELSE results[k]]

\* the answer of get_today_stats when no write falls between its SELECTs
TodayStats(store, t, ukoff, hostoff) ==
    Counts(TodayResults(store), TodayCompleted(store, t, ukoff),
           TodayGreen(store, t, ukoff),
           TodayOverdueCount(store, HostNow(t, ukoff, hostoff)))

\* get_today_stats up to results = c.fetchall(): datetime.now() is read
\* and the first SELECT runs
get_today_stats_results ==
    /\ query.op = "none"
    /\ query' = [op |-> "get_today_stats", at |-> now,
                 part |-> <<TodayResults(rows)>>]
    /\ UNCHANGED <<rows, next_id, now, holidays, ukOffset, pc, data, rid, resp,
                   issued, updates, calc, hostOffset, stat, script>>

\* the second SELECT, with DATE('now') of the moment it runs
get_today_stats_completed ==
    /\ query.op = "get_today_stats" /\ Len(query.part) = 1
    /\ query' = [query EXCEPT
                    !.part = Append(@, TodayCompleted(rows, now, ukOffset))]
    /\ UNCHANGED <<rows, next_id, now, holidays, ukOffset, pc, data, rid, resp,
                   issued, updates, calc, hostOffset, stat, script>>

\* the third SELECT, with DATE('now') of the moment it runs
get_today_stats_green ==
    /\ query.op = "get_today_stats" /\ Len(query.part) = 2
    /\ query' = [query EXCEPT
                    !.part = Append(@, TodayGreen(rows, now, ukOffset))]
    /\ UNCHANGED <<rows, next_id, now, holidays, ukOffset, pc, data, rid, resp,
                   issued, updates, calc, hostOffset, stat, script>>

\* the fourth SELECT, with the datetime.now() read at the start, and the
\* answer
get_today_stats_overdue ==
    /\ query.op = "get_today_stats" /\ Len(query.part) = 3
    /\ stat' = Answer("get_today_stats", 0,
                      Counts(query.part[1], query.part[2], query.part[3],
                             TodayOverdueCount(
                                 rows, HostNow(query.at, ukOffset, hostOffset))),
                      <<>>)
    /\ query' = NoQuery
    /\ UNCHANGED <<rows, next_id, now, holidays, ukOffset, pc, data, rid, resp,
                   issued, updates, calc, hostOffset, script>>

\* request times around the clock of the first state: Thursday afternoon,
\* half an hour before that clock, and Friday late evening, which is still
\* to come
TodayTimes == {At(1, 3, 14, 30), At(1, 4, 7, 30), At(1, 4, 23, 30)}

TodayBodies ==
    {[has |-> TRUE, pathway |-> PURPLE, request_time |-> GoodIso(Aware(t, BstOff))] :
        t \in TodayTimes} \cup
    {[has |-> TRUE, pathway |-> GREEN,
      request_time |-> GoodIso(Aware(At(1, 4, 7, 30), BstOff))]}

TodayRequestRead ==
    \E body \in TodayBodies :
        /\ InFlight = 0
        /\ next_id <= MaxTodayRows
        /\ add_request_read("t1", body)
TodayMarkCompleted == \E body \in IdBodies(MaxTodayRows) : mark_completed(body)
TodayUndoCompleted == \E body \in IdBodies(MaxTodayRows) : undo_completed(body)
TodayDeleteRequest == \E body \in IdBodies(MaxTodayRows) : delete_request(body)

InitToday ==
    /\ rows = EmptyStore
    /\ next_id = 1
    /\ now = Now0
    /\ holidays = {NextMonday}
    /\ ukOffset = BstOff
    /\ hostOffset \in {UtcOff, ukOffset}
    /\ pc = [t \in Threads |-> "idle"]
    /\ data = [t \in Threads |-> NoBody]
    /\ rid = [t \in Threads |-> NULL]
    /\ resp = NoResp
    /\ issued = <<>>
    /\ updates = 0
    /\ calc = NoCalc
    /\ stat = NoStat
    /\ script = NoScript
    /\ query = NoQuery

NextToday ==
    \/ TodayRequestRead
    \/ AddRequestInsert
    \/ TodayMarkCompleted
    \/ TodayUndoCompleted
    \/ TodayDeleteRequest
    \/ get_overdue_count
    \/ get_today_stats_results
    \/ get_today_stats_completed
    \/ get_today_stats_green
    \/ get_today_stats_overdue

SpecToday == InitToday /\ [][NextToday]_vars

-----------------------------------------------------------------------------
(* Properties *)

SameYear(a, b) == a.yy = b.yy
SeqOf(request_id) == ParseInt(request_id.digits)
IdHandlers ==
    {"mark_completed", "undo_completed", "delete_request",
     "update_notes", "update_name", "update_mrn", "update_ward"}

\* C1: two add_request calls running at the same time in one year never get
\* the same request_id: the stored rows of one year have pairwise distinct
\* request_ids.  The code reads the last id and inserts in two steps with
\* nothing between them to keep another call out, so this fails.
C1_DistinctRequestIds ==
    \A i, j \in DOMAIN rows :
        (i # j /\ SameYear(rows[i].request_id, rows[j].request_id))
            => rows[i].request_id # rows[j].request_id

\* C2: a stored row has a completion_time exactly when its status is
\* 'completed', whatever handlers ran and however they interleaved.
C2_CompletionTimeIffCompleted ==
    \A i \in DOMAIN rows :
        (rows[i].completion_time # NULL) <=> (rows[i].status = "completed")

\* C2 witness: an undo has just turned a row back to pending while another
\* row is still completed.
C2_UndoneBesideCompleted ==
    /\ resp.op = "undo_completed" /\ resp.found
    /\ \E i, j \in DOMAIN rows :
          /\ rows[i].status = "completed" /\ rows[i].completion_time # NULL
          /\ rows[j].status = "pending" /\ j # i

\* C3: mark_completed, undo_completed, delete_request and the four field
\* updates answer an id that is not stored with a not-found error.  The code
\* answers 200 'success' whether or not the UPDATE or DELETE met a row.
C3_UnknownIdNotFound ==
    (resp.op \in IdHandlers /\ ~resp.found) => resp.code = NotFound

\* C4: with add_request calls one after the other, the sequence numbers of
\* one year rise strictly in creation order, deleted rows included.  The
\* code takes the last stored id, so a deleted last id is given out again.
C4_SeqRisesOverDeleted ==
    \A i, j \in DOMAIN issued :
        (i < j /\ SameYear(issued[i], issued[j]))
            => SeqOf(issued[i]) < SeqOf(issued[j])

\* C5: add_request gives the numerically largest stored sequence number of
\* the current year plus one, and 1 when the year has no row, also when a
\* stored number has five digits.  The code takes the largest id as TEXT, and
\* "9999" sorts after "10000".
C5_NextIsNumericMaxPlusOne ==
    (resp.op = "add_request" /\ resp.code = Ok /\ InFlight = 0) =>
        LET new == next_id - 1
            others == {SeqOf(rows[i].request_id) :
                         i \in {k \in DOMAIN rows \ {new} :
                                  LikeYear(rows[k].request_id, current_year)}}
            top == IF others = {} THEN 0
                   ELSE CHOOSE n \in others : \A m \in others : m <= n
        IN  new \in DOMAIN rows =>
                rows[new].request_id = FormatId(current_year, top + 1)

\* the inputs of the last call of the calculator
Called(start_date, hours, hol) ==
    /\ calc.called
    /\ calc.start = start_date
    /\ calc.hours = hours
    /\ holidays = hol

Friday0900 == At(1, 4, 9, 0)
Friday1000 == At(1, 4, 10, 0)
Monday0900 == At(2, 0, 9, 0)
Tuesday0900 == At(2, 1, 9, 0)

\* C6 as claimed: Friday 09:00 plus one working hour, no holidays, is the
\* Monday after at 09:00.
C6_FridayPlusOneIsMonday ==
    Called(Friday0900, PurpleHours, {}) => calc.result = Monday0900

\* C6 as amended: Friday 09:00 plus one working hour, no holidays, is
\* Friday 10:00: the hour reached falls on a working day and is counted.
C6_FridayPlusOneIsFriday1000 ==
    Called(Friday0900, PurpleHours, {}) => calc.result = Friday1000

\* C6 witness: the calculator was called with Friday 09:00, one hour and no
\* holidays.
C6_CalledFridayNoHoliday == Called(Friday0900, PurpleHours, {})

\* C7 as claimed: with the Monday after it a bank holiday, Friday 09:00 plus
\* one working hour is the Tuesday after at 09:00.
C7_FridayPlusOneIsTuesday ==
    Called(Friday0900, PurpleHours, {NextMonday}) => calc.result = Tuesday0900

\* C7 as amended: with the Monday after it a bank holiday, Friday 09:00 plus
\* one working hour is still Friday 10:00; the holiday is never reached.
C7_HolidayFridayPlusOneIsFriday1000 ==
    Called(Friday0900, PurpleHours, {NextMonday}) => calc.result = Friday1000

\* C7 witness: the calculator was called with Friday 09:00 and one hour while
\* the Monday after is a holiday.
C7_CalledFridayHolidayMonday == Called(Friday0900, PurpleHours, {NextMonday})

\* a Monday (not a holiday), 09:00
IsMonday0900(t) == Weekday(DateOf(t)) = 0 /\ t % DayMin = 9 * HourMin

\* C8: Monday 09:00 plus 24 working hours, no holidays, is Tuesday 09:00 of
\* the same week.
C8_MondayPlus24IsTuesday ==
    (calc.called /\ IsMonday0900(calc.start) /\ calc.hours = RedHours
        /\ holidays = {})
      => (/\ calc.result = calc.start + DayMin
          /\ Weekday(DateOf(calc.result)) = 1
          /\ DateOf(calc.result) = DateOf(calc.start) + 1)

\* C8 witness: the calculator was called with a Monday 09:00, 24 hours and no
\* holidays.
C8_CalledMonday24 ==
    calc.called /\ IsMonday0900(calc.start) /\ calc.hours = RedHours
        /\ holidays = {}

\* C9: zero hours leave the start as it is, on a working day, a weekend or a
\* bank holiday alike.
C9_ZeroHoursIsIdentity ==
    (calc.called /\ calc.hours = 0) => calc.result = calc.start

\* C9 witness: the calculator was called with zero hours on a start that
\* falls on a configured bank holiday.
C9_CalledZeroOnHoliday ==
    calc.called /\ calc.hours = 0 /\ DateOf(calc.start) \in holidays

\* C10: a stored GREEN or REJECTED row has expected_time equal to its
\* request_time, when inserted and in every state after.
C10_UntimedExpectedIsRequest ==
    \A i \in DOMAIN rows :
        rows[i].pathway \in {GREEN, REJECTED}
            => rows[i].expected_time = rows[i].request_time

\* C10 witness: a REJECTED row inserted by add_request has since been marked
\* completed, and a GREEN row is stored beside it.
C10_UntimedRowsLater ==
    \E i, j \in DOMAIN rows :
        /\ rows[i].pathway = REJECTED /\ rows[i].status = "completed"
        /\ LikeYear(rows[i].request_id, current_year)
        /\ rows[j].pathway = GREEN

\* the instant of a stored timestamp, in minutes of UTC
Instant(dt) == dt.wall - dt.off

TimedPathways == {PURPLE, RED, AMBER}

\* C11: a stored PURPLE, RED or AMBER row has expected_time at or after its
\* request_time, whatever day the request falls on and whatever the holidays.
C11_ExpectedNotBeforeRequest ==
    \A i \in DOMAIN rows :
        rows[i].pathway \in TimedPathways
            => Instant(rows[i].expected_time) >= Instant(rows[i].request_time)

\* C11 witness: an AMBER row requested on a Saturday is stored with a
\* deadline after the holiday Monday, and has since been marked completed.
C11_WeekendAmberStored ==
    \E i \in DOMAIN rows :
        /\ rows[i].pathway = AMBER
        /\ is_weekend_or_bank_holiday(DateOf(rows[i].request_time.wall), {})
        /\ NextMonday \in holidays
        /\ DateOf(rows[i].expected_time.wall) > NextMonday
        /\ rows[i].status = "completed"

\* A stored timestamp on the London wall clock, and the London wall-clock
\* minute at which day d starts: the reference timezone in which the
\* statistics count by day
UkWall(dt, ukoff) == dt.wall - dt.off + ukoff
DayStart(d) == d * DayMin

\* "as of day D, was request R overdue?" as stated: untimed pathways out,
\* deadline before the end of D, requested by the end of D, and pending or
\* completed after the start of D
OverdueAsOf(r, d, ukoff) ==
    /\ r.pathway \notin {GREEN, REJECTED}
    /\ UkWall(r.expected_time, ukoff) < DayStart(d + 1)
    /\ UkWall(r.request_time, ukoff) <= DayStart(d + 1)
    /\ \/ r.status = "pending"
       \/ /\ r.status = "completed"
          /\ r.completion_time # NULL
          /\ UkWall(r.completion_time, ukoff) > DayStart(d)

\* C12: the count get_daily_overdue gives for a day is the number of rows
\* that are overdue as of that day in the stated sense, a completion_time at
\* the very start of the day included.  The query has a third alternative,
\* completed within the day and after the deadline, which counts a row
\* completed at the start of the day.
C12_DailyOverdueIsAsStated ==
    stat.op = "get_daily_overdue" =>
        \A d \in DOMAIN stat.daily :
            stat.daily[d] =
                Cardinality({i \in DOMAIN rows :
                                OverdueAsOf(rows[i], d, ukOffset)})

\* row r was completed before day d started
CompletedBefore(r, d, ukoff) ==
    /\ r.status = "completed"
    /\ r.completion_time # NULL
    /\ UkWall(r.completion_time, ukoff) < DayStart(d)

\* C13: a row completed strictly before the start of day D is not counted
\* by get_daily_overdue for D: no such row meets the condition of the query,
\* and the count of D is at most the number of the other rows.
C13_CompletedBeforeNotCounted ==
    stat.op = "get_daily_overdue" =>
        \A d \in DOMAIN stat.daily :
            /\ \A i \in DOMAIN rows :
                  CompletedBefore(rows[i], d, ukOffset) => ~OverdueOn(rows[i], d)
            /\ stat.daily[d] <=
                  Cardinality({i \in DOMAIN rows :
                                  ~CompletedBefore(rows[i], d, ukOffset)})

\* C13 witness: get_daily_overdue has answered for a store, in summer time,
\* whose only row is timed, was due and requested before a day of the
\* window and was completed before that day started; the day counts 0.
C13_AnsweredWithEarlierCompletion ==
    /\ stat.op = "get_daily_overdue"
    /\ ukOffset = BstOff
    /\ DOMAIN rows = {1}
    /\ \E d \in DOMAIN stat.daily :
          /\ CompletedBefore(rows[1], d, ukOffset)
          /\ OverdueOnAnyCompletion(rows[1], d)
          /\ stat.daily[d] = 0

\* "as of day D, pending" as stated: untimed pathways out, requested by the
\* end of D, and pending or completed at or after the start of D
PendingAsOf(r, d, ukoff) ==
    /\ r.pathway \notin {GREEN, REJECTED}
    /\ UkWall(r.request_time, ukoff) <= DayStart(d + 1)
    /\ \/ r.status = "pending"
       \/ /\ r.completion_time # NULL
          /\ UkWall(r.completion_time, ukoff) >= DayStart(d)

\* C14: the count get_daily_max_pending gives for a day is the number of
\* rows pending as of that day in the stated sense.  The query has the
\* stated condition, but bounds the day at 00:00 UTC: in summer time a row
\* requested or completed between 00:00 and 01:00 London time is counted
\* for the day before.
C14_DailyMaxPendingIsAsStated ==
    stat.op = "get_daily_max_pending" =>
        \A d \in DOMAIN stat.daily :
            stat.daily[d] =
                Cardinality({i \in DOMAIN rows :
                                PendingAsOf(rows[i], d, ukOffset)})

\* C14 in winter time, when the London day starts at 00:00 UTC
C14_DailyMaxPendingInWinter ==
    ukOffset = GmtOff => C14_DailyMaxPendingIsAsStated

\* the store in which row i was never completed
NeverCompleted(store, i) ==
    [store EXCEPT ![i] = [@ EXCEPT !.status = "pending",
                                   !.completion_time = NULL]]

\* C15: every step that takes a completed row of a timed pathway back to
\* pending leaves it without completion_time; get_daily_overdue then counts
\* it for every day of the window by whose end it was due and requested; and
\* the per-day overdue and pending counts are those of the store in which
\* the row was never completed.
C15_UndoIsNeverCompleted ==
    [][\A i \in DOMAIN rows :
          (/\ i \in DOMAIN rows'
           /\ rows[i].pathway \in TimedPathways
           /\ rows[i].status = "completed"
           /\ rows'[i].status = "pending")
          => /\ rows'[i].completion_time = NULL
             /\ \A d \in Dates(now', ukOffset', hostOffset') :
                   (/\ UkWall(rows'[i].expected_time, ukOffset') < DayStart(d + 1)
                    /\ UkWall(rows'[i].request_time, ukOffset') <= DayStart(d + 1))
                   => OverdueOn(rows'[i], d)
             /\ DailyOverdue(rows', now', ukOffset', hostOffset')
                   = DailyOverdue(NeverCompleted(rows, i), now, ukOffset, hostOffset)
             /\ DailyMaxPending(rows', now', ukOffset', hostOffset')
                   = DailyMaxPending(NeverCompleted(rows, i), now, ukOffset,
                                     hostOffset)
      ]_vars

\* C15 witness: undo_completed has answered for a stored id and
\* get_daily_overdue, asked after it, counts the row, now pending and
\* without completion_time, on Tuesday and on Friday of week 1.
C15_UndoneAndCounted ==
    /\ resp.op = "undo_completed" /\ resp.found
    /\ stat.op = "get_daily_overdue"
    /\ 1 \in DOMAIN rows
    /\ rows[1].status = "pending" /\ rows[1].completion_time = NULL
    /\ rows[1].pathway \in TimedPathways
    /\ stat.daily[DateOf(At(1, 1, 0, 0))] = 1
    /\ stat.daily[DateOf(At(1, 4, 0, 0))] = 1

\* C16: the count get_overdue_count gives is the number of pending PURPLE,
\* RED and AMBER rows whose deadline is earlier than now; pending GREEN and
\* REJECTED rows are never counted.  The query compares the deadline, which
\* SQLite converts to UTC, with datetime.now() of the host, a wall-clock
\* time without offset: on a host keeping London time in summer a row is
\* counted from an hour before its deadline.
C16_OverdueCountIsPastDeadline ==
    stat.op = "get_overdue_count" =>
        stat.count =
            Cardinality({i \in DOMAIN rows :
                            /\ rows[i].status = "pending"
                            /\ rows[i].pathway \in TimedPathways
                            /\ UkWall(rows[i].expected_time, ukOffset) < now})

\* C16 on a host whose local time is UTC
C16_OverdueCountOnUtcHost ==
    hostOffset = UtcOff => C16_OverdueCountIsPastDeadline

\* the stored row shown at position k of the last listing
RowAt(k) == rows[stat.list[k].id]
Positions == DOMAIN stat.list
Untimed(r) == r.pathway \in {GREEN, REJECTED}

\* C17: in the listing a completed GREEN or REJECTED row comes before every
\* completed PURPLE, RED or AMBER row.  The ORDER BY tests the status first,
\* so a completed GREEN row is in tier 3 and is placed by its
\* completion_time among the other completed rows.
C17_CompletedUntimedBeforeCompletedTimed ==
    stat.op = "get_requests" =>
        \A i, j \in Positions :
            (/\ RowAt(i).status = "completed" /\ Untimed(RowAt(i))
             /\ RowAt(j).status = "completed" /\ ~Untimed(RowAt(j)))
            => i < j

\* the three classes of C18: 1 pending and timed, 2 pending and untimed,
\* 3 completed and timed; 0 for the completed untimed rows it leaves out
ListClass(r) ==
    IF r.status = "pending" THEN (IF Untimed(r) THEN 2 ELSE 1)
    ELSE IF Untimed(r) THEN 0 ELSE 3

\* C18: in the listing every pending timed row comes before every pending
\* GREEN or REJECTED row, which comes before every completed timed row; and
\* the pending timed rows come in ascending order of expected_time,
\* whatever their pathways.
C18_ListedByClassThenDeadline ==
    stat.op = "get_requests" =>
        \A i, j \in Positions :
            /\ (/\ ListClass(RowAt(i)) # 0 /\ ListClass(RowAt(j)) # 0
                /\ ListClass(RowAt(i)) < ListClass(RowAt(j))) => i < j
            /\ (/\ ListClass(RowAt(i)) = 1 /\ ListClass(RowAt(j)) = 1
                /\ Instant(RowAt(i).expected_time)
                      < Instant(RowAt(j).expected_time)) => i < j

\* C18 witness: a listing of three rows stored in another order: a pending
\* RED row first, then a pending PURPLE row with a later deadline, then a
\* pending GREEN row; and the store below it holds them with the GREEN row
\* first and the PURPLE row second.
C18_RedPurpleGreenListed ==
    /\ stat.op = "get_requests"
    /\ Positions = 1..3
    /\ RowAt(1).pathway = RED /\ RowAt(1).status = "pending"
    /\ RowAt(2).pathway = PURPLE /\ RowAt(2).status = "pending"
    /\ Instant(RowAt(1).expected_time) < Instant(RowAt(2).expected_time)
    /\ RowAt(3).pathway = GREEN /\ RowAt(3).status = "pending"
    /\ stat.list[3].id = 1 /\ stat.list[2].id = 2

\* C19: of two GREEN or REJECTED rows of the same year in the listing, the
\* one with the larger sequence number comes first.  The ORDER BY term is
\* CAST(request_id AS INTEGER), the year, which is the same for both, so
\* the query leaves their order open.
C19_UntimedBySequenceDescending ==
    stat.op = "get_requests" =>
        \A i, j \in Positions :
            (/\ Untimed(RowAt(i)) /\ Untimed(RowAt(j))
             /\ SameYear(RowAt(i).request_id, RowAt(j).request_id)
             /\ SeqOf(RowAt(i).request_id) > SeqOf(RowAt(j).request_id))
            => i < j

\* C20: a row stored by add_request has triage_date equal to the calendar
\* date of its request_time, also when that is not the date on which
\* add_request runs.  The code stores the date of get_uk_time(), the day of
\* the call.
C20_TriageDateIsRequestDate ==
    \A i \in DOMAIN rows :
        rows[i].triage_date = DateOf(UkWall(rows[i].request_time, ukOffset))

\* C21: no step changes the expected_time of a row that stays stored:
\* mark_completed, undo_completed, the field updates and the maintenance
\* script fix_overdue_requests all leave it as add_request stored it.  The
\* script gives every overdue row it does not mark completed a new deadline.
C21_ExpectedTimeNeverChanges ==
    [][\A i \in DOMAIN rows :
          i \in DOMAIN rows' => rows'[i].expected_time = rows[i].expected_time
      ]_vars

\* C22: an add_request with a pathway outside the five names, with an
\* unparsable request_time or with a field missing answers 400 and leaves
\* the store as it was: no row is inserted, no stored row has a pathway
\* outside the five, and the request_id the next add_request reads is the
\* one it would have read before the failed call.
C22_FailedCreateLeavesStore ==
    [][/\ \A t \in Threads :
             (/\ pc[t] = "insert" /\ pc'[t] = "idle"
              /\ ~data[t].request_time.ok)
             => (/\ resp' = Response("add_request", BadRequest, TRUE)
                 /\ rows' = rows /\ next_id' = next_id)
       /\ (resp'.op = "add_request" /\ resp'.code = BadRequest)
             => (/\ rows' = rows /\ next_id' = next_id
                 /\ get_next_request_id(rows', current_year)
                       = get_next_request_id(rows, current_year))
       /\ \A i \in DOMAIN rows' :
             rows'[i].pathway \in TimedPathways \cup {GREEN, REJECTED}
      ]_vars

\* C22 witness: an add_request has just answered 400 on a store that holds
\* a row of the current year from an earlier call, and the id the next call
\* reads follows that row's.
C22_FailedAfterCreated ==
    /\ resp = Response("add_request", BadRequest, TRUE)
    /\ InFlight = 0
    /\ \E i \in DOMAIN rows :
          /\ LikeYear(rows[i].request_id, current_year)
          /\ get_next_request_id(rows, current_year)
                = FormatId(current_year, SeqOf(rows[i].request_id) + 1)

DailyOps == {"get_daily_stats", "get_daily_overdue", "get_daily_max_pending"}

\* the trailing window as stated: the 30 days before today and today, today
\* being the date in London
LondonWindow == (DateOf(now) - WindowDays)..DateOf(now)

\* C23: get_daily_stats, get_daily_overdue and get_daily_max_pending each
\* answer with an entry for every day from today - 30 days to today and for
\* no other day, all of them 0 when the store is empty.  get_daily_overdue
\* and get_daily_max_pending take today from datetime.now() of the host: on
\* a host keeping UTC their window ends yesterday between 00:00 and 01:00
\* of a London summer day.
C23_EveryDayOfWindowAnswered ==
    stat.op \in DailyOps =>
        /\ DOMAIN stat.daily = LondonWindow
        /\ DOMAIN rows = {} =>
              \A d \in DOMAIN stat.daily :
                  IF stat.op = "get_daily_stats"
                  THEN \A k \in DOMAIN stat.daily[d] : stat.daily[d][k] = 0
                  ELSE stat.daily[d] = 0

\* C23 on a host keeping London time
C23_WindowOnLondonHost ==
    hostOffset = ukOffset => C23_EveryDayOfWindowAnswered

\* no entry of a listing is shown as REJECTED
NoRejectedListed(st) ==
    st.op = "get_requests" =>
        \A k \in DOMAIN st.list : st.list[k].pathway # REJECTED

\* counts by day and pathway that have the REJECTED rows of a store under
\* REJECTED and its GREEN rows under GREEN PATHWAY, by triage_date
RejectedCountedApart(counts, store) ==
    \A d \in DOMAIN counts :
        \A k \in {GREEN, REJECTED} :
            counts[d][k] =
                Cardinality({i \in DOMAIN store :
                                /\ store[i].pathway = k
                                /\ store[i].triage_date = d})

\* C24: REJECTED is shown as GREEN PATHWAY and stored as REJECTED, whatever
\* handlers run: after every step no entry of a listing has pathway
\* REJECTED; every row that stays stored keeps its pathway; the first
\* SELECT of get_daily_stats counts the REJECTED rows stored at that moment
\* under REJECTED and the GREEN rows under GREEN PATHWAY; and the answer of
\* get_daily_stats gives these two counts as the first SELECT returned
\* them.  Both steps of get_daily_stats change query.
C24_RejectedShownGreenStoredRejected ==
    [][/\ NoRejectedListed(stat')
       /\ \A i \in DOMAIN rows :
             i \in DOMAIN rows' => rows'[i].pathway = rows[i].pathway
       /\ (query' # query /\ get_daily_stats_pathways)
             => RejectedCountedApart(query'.part[1], rows)
       /\ (query' # query /\ get_daily_stats_completed)
             => \A d \in DOMAIN stat'.daily :
                   \A k \in {GREEN, REJECTED} :
                       stat'.daily[d][k] = query.part[1][d][k]
      ]_vars

\* C24 witness: get_daily_stats has answered, after undo_completed ran on a
\* stored row, with a row that is stored as REJECTED, that the listing
\* shows as GREEN PATHWAY, counted once under REJECTED on its triage_date
\* and not under GREEN PATHWAY.
C24_StoredRejectedCountedRejected ==
    /\ stat.op = "get_daily_stats"
    /\ resp.op = "undo_completed" /\ resp.found
    /\ \E i \in DOMAIN rows :
          /\ rows[i].pathway = REJECTED
          /\ Listed(rows[i]).pathway = GREEN
          /\ rows[i].triage_date \in DOMAIN stat.daily
          /\ stat.daily[rows[i].triage_date][REJECTED] = 1
          /\ stat.daily[rows[i].triage_date][GREEN] = 0

\* C25: a request_time string without an offset is taken as London wall
\* clock time: the row add_request inserts for it has a request_time with
\* the same wall-clock minutes and the London offset, in summer time too.
\* convert_to_uk_time localizes a naive datetime as UTC, so in summer time
\* the stored wall clock is an hour later than the one sent.
C25_NaiveKeptAsLondonWallClock ==
    [][\A t \in Threads :
          (/\ pc[t] = "insert" /\ pc'[t] = "idle"
           /\ data[t].request_time.ok
           /\ IsNaive(data[t].request_time.dt)
           /\ next_id \in DOMAIN rows')
          => rows'[next_id].request_time
                = Aware(data[t].request_time.dt.wall, ukOffset)
      ]_vars

\* C25 in winter time, when London keeps UTC
C25_NaiveKeptInWinter ==
    [][ukOffset = GmtOff =>
          \A t \in Threads :
              (/\ pc[t] = "insert" /\ pc'[t] = "idle"
               /\ data[t].request_time.ok
               /\ IsNaive(data[t].request_time.dt)
               /\ next_id \in DOMAIN rows')
              => rows'[next_id].request_time
                    = Aware(data[t].request_time.dt.wall, ukOffset)
      ]_vars

\* the hours m of 1..k for which start + m hours falls on a day that is
\* neither Saturday, Sunday nor a holiday
WorkingSteps(start_date, k, hol) ==
    {m \in 1..k :
        LET d == DateOf(start_date + m * HourMin)
        IN  Weekday(d) # Saturday /\ Weekday(d) # Sunday /\ d \notin hol}

\* C26: for hours >= 1 add_working_hours_uk returns start + k hours, k the
\* smallest positive number for which exactly `hours` of start + 1h, ...,
\* start + k h fall on a working day; the result falls on a working day and
\* has the minutes past the hour of the start.
C26_SmallestHourCount ==
    (calc.called /\ calc.hours >= 1) =>
        LET k == (calc.result - calc.start) \div HourMin
            working == WorkingSteps(calc.start, k, holidays)
        IN  /\ k >= 1
            /\ calc.result = calc.start + k * HourMin
            /\ Cardinality(working) = calc.hours
            /\ \A j \in 1..(k - 1) :
                  Cardinality({m \in working : m <= j}) # calc.hours
            /\ k \in working
            /\ calc.result % HourMin = calc.start % HourMin

\* C26 witness: 72 hours were asked from a Saturday at half past an hour
\* with the Monday after a holiday, and the result is more than five days
\* later.
C26_AmberOverWeekendAndHoliday ==
    /\ calc.called /\ calc.hours = AmberHours
    /\ Weekday(DateOf(calc.start)) = Saturday
    /\ calc.start % HourMin = TickHalf
    /\ DateOf(calc.start) + 2 \in holidays
    /\ calc.result > calc.start + 5 * DayMin

\* C27: for every day of the window, every row that get_daily_overdue
\* counts for the day is also counted by get_daily_max_pending, and the
\* overdue count of the day is at most its pending count.
C27_OverdueWithinPending ==
    \A d \in Dates(now, ukOffset, hostOffset) :
        /\ \A i \in DOMAIN rows :
              OverdueOn(rows[i], d) => PendingOn(rows[i], d)
        /\ DailyOverdue(rows, now, ukOffset, hostOffset)[d]
              <= DailyMaxPending(rows, now, ukOffset, hostOffset)[d]

\* C27 witness: get_daily_overdue has answered for a store whose row is
\* completed; one day of the window counts the row as overdue and as
\* pending, another counts it as pending only.
C27_CompletedCountedBothWays ==
    /\ stat.op = "get_daily_overdue"
    /\ \E i \in DOMAIN rows : rows[i].status = "completed"
    /\ stat.daily = DailyOverdue(rows, now, ukOffset, hostOffset)
    /\ \E d1, d2 \in DOMAIN stat.daily :
          /\ stat.daily[d1] = 1
          /\ DailyMaxPending(rows, now, ukOffset, hostOffset)[d1] = 1
          /\ stat.daily[d2] = 0
          /\ DailyMaxPending(rows, now, ukOffset, hostOffset)[d2] = 1

\* C28: whatever add_request, mark_completed, undo_completed and
\* delete_request have done, and wherever they fall between the SELECTs of
\* get_today_stats, the OVERDUE entry of the answer of get_today_stats is
\* the count get_overdue_count gives for the same table and the same
\* datetime.now(), and the answer of get_overdue_count is the count the
\* OVERDUE query of get_today_stats gives: in the table after every step
\* the two WHERE clauses pick the same rows.
C28_TodayOverdueIsOverdueCount ==
    [][/\ get_today_stats_overdue
             => stat'.daily[OVERDUE]
                    = OverdueCount(rows, query.at, ukOffset, hostOffset)
       /\ get_overdue_count
             => stat'.count
                    = TodayOverdueCount(rows,
                                        HostNow(now, ukOffset, hostOffset))
       /\ \A i \in DOMAIN rows' :
             TodayOverdue(rows'[i], HostNow(now', ukOffset, hostOffset))
                 <=> CurrentlyOverdue(rows'[i],
                                      HostNow(now', ukOffset, hostOffset))
      ]_vars

\* C28 witness: get_today_stats has answered OVERDUE = 1, after an
\* undo_completed on a stored row, for a store of two pending rows of timed
\* pathways, one past its deadline and one whose request_time is still to
\* come.
C28_OverdueBesideFutureRequest ==
    /\ stat.op = "get_today_stats"
    /\ resp.op = "undo_completed" /\ resp.found
    /\ stat.daily[OVERDUE] = 1
    /\ \E i, j \in DOMAIN rows :
          /\ rows[i].status = "pending" /\ rows[j].status = "pending"
          /\ rows[i].pathway = PURPLE /\ rows[j].pathway = PURPLE
          /\ SqlDatetime(rows[i].expected_time) < HostNow(now, ukOffset, hostOffset)
          /\ SqlDatetime(rows[j].request_time) > HostNow(now, ukOffset, hostOffset)

\* the PERFORMED count of day d in the answer get_daily_stats gives for a
\* store
PerformedOn(store, d) == DailyStats(store, now, ukOffset)[d][PERFORMED]

\* C29: mark_completed on a row that is already completed leaves its status
\* completed and replaces its completion_time by the time of this call, so
\* the first completion_time is kept nowhere; when the call falls on a later
\* day, in the performed-per-day counts the row leaves the day of the first
\* completion and enters the day of the call.
C29_RemarkMovesCompletion ==
    [][\A i \in DOMAIN rows :
          (rows[i].status = "completed"
             /\ mark_completed([has_id |-> TRUE, id |-> i]))
          => LET first == rows[i].completion_time
                 later == uk_time_to_iso(get_uk_time(now, ukOffset), ukOffset)
                 moved == SqlDate(first) < SqlDate(later)
             IN  /\ rows'[i].status = "completed"
                 /\ rows'[i].completion_time = later
                 /\ \A j \in DOMAIN rows' : rows'[j].completion_time = first
                                               => rows[j].completion_time = first
                 /\ SqlDate(first) <= SqlDate(later)
                 /\ \A d \in StatsDates(now, ukOffset) :
                       PerformedOn(rows', d) =
                           PerformedOn(rows, d)
                             - (IF moved /\ d = SqlDate(first) THEN 1 ELSE 0)
                             + (IF moved /\ d = SqlDate(later) THEN 1 ELSE 0)]_vars

\* C29 witness: get_daily_stats answered with the row performed on Thursday,
\* then mark_completed ran again on Friday or Saturday: the row is completed
\* at the time of that call and counted on its day, no longer on Thursday.
C29_RemarkedOnLaterDay ==
    /\ stat.op = "get_daily_stats"
    /\ stat.daily[DateOf(At(1, 3, 12, 0))][PERFORMED] = 1
    /\ resp = Response("mark_completed", Ok, TRUE)
    /\ \E i \in DOMAIN rows :
          /\ rows[i].status = "completed"
          /\ rows[i].completion_time
                = uk_time_to_iso(get_uk_time(now, ukOffset), ukOffset)
    /\ PerformedOn(rows, DateOf(At(1, 3, 12, 0))) = 0
    /\ PerformedOn(rows, SqlDate(get_uk_time(now, ukOffset))) = 1

\* row r is completed, at or before its expected_time
CompletedOnTime(r) ==
    /\ r.status = "completed"
    /\ r.completion_time # NULL
    /\ SqlDatetime(r.completion_time) <= SqlDatetime(r.expected_time)

\* C30: get_daily_overdue counts for no day a row that is completed with
\* completion_time at or before its expected_time.  The second alternative
\* of the query takes every completed row whose completion_time is after the
\* start of the day, whatever its deadline, so a row completed in time on
\* the day of its deadline is counted for that day.
C30_OnTimeCompletionNeverCounted ==
    stat.op = "get_daily_overdue" =>
        \A d \in DOMAIN stat.daily :
            stat.daily[d] =
                Cardinality({i \in DOMAIN rows :
                                OverdueOn(rows[i], d) /\ ~CompletedOnTime(rows[i])})

=============================================================================
